---- MODULE Spec2Model ----
(***************************************************************************)
(* The RTSP session channel (src/src/rtsp/client/channel.rs) as a state    *)
(* machine: the event loop poll_until_shutdown, the command path           *)
(* handle_command / handle_retry_cmds, the receive path handle_data /      *)
(* read_rtsp_packet, shutdown, and the authorizer it installs on a 401.    *)
(*                                                                         *)
(* Commands are identified by 1..NumCmds; each owns a oneshot reply sink.  *)
(* A response on the wire is a record of what the parser yields for it     *)
(* (status, CSeq header, WWW-Authenticate header, body); the frame the     *)
(* receive buffer holds next is chosen when read_packet looks at it.       *)
(* Commands are interchangeable, so they are numbered in the order in      *)
(* which they are submitted; a CSeq value the channel has never assigned   *)
(* is represented by the next unassigned one.                              *)
(***************************************************************************)
EXTENDS Integers, Sequences, FiniteSets, TLC

\* ---------------------------------------------------------------- bounds
NumCmds == 2      \* commands the callers may submit
MaxCSeq == 3      \* serialisations explored (caps the cseq counter)
MaxBatch == 2     \* responses one stream read may deliver
MaxLen == 3       \* largest max_len a ReorderQueue is built with
MaxOffers == 4    \* packets offered to the reorder queue
MaxCapacity == 4  \* largest max_capacity a Buffer is built with
MaxBytes == 5     \* bytes written into a Buffer in one behaviour
TxCapacity == 3   \* max_capacity of buffer_tx, scaled down from 512 * 1024
TxSlice == 2      \* bytes handle_command asks buffer_tx for, scaled down from 4096
MaxWrites == 5    \* requests one Authorizer serialises on its own
MaxPacketLen == 16   \* longest rtp packet buffer tried
MaxStream == 3    \* framed payloads a PacketReader is given

\* ------------------------------------------------------- program constants
IntakeCap == 8    \* mpsc::channel::<Command>(8)
MaxHeader == 1024          \* read_buf.len() > 1024
MaxResponse == 32768   \* bytes > 32 * 1024
MaxRead == 4096    \* buffer_rx.get_write_slice(4096)
CSRC_OFFSET == 12   \* Packet::CSRC_OFFSET

CmdIds == 1..NumCmds

\* ------------------------------------------------------------ reply sinks
\* The state of a command's oneshot channel as its receiver sees it.
SinkVal(res, err, body, status) ==
    [res |-> res, err |-> err, body |-> body, status |-> status]
SinkIdle == SinkVal("Idle", "", "", 0)          \* command not submitted yet
SinkWaiting == SinkVal("Waiting", "", "", 0)    \* submitted, nothing sent on tx
SinkDropped == SinkVal("Dropped", "", "", 0)    \* tx dropped without a send
SinkOk(body) == SinkVal("Ok", "", body, 0)
SinkErr(err) == SinkVal("Err", err, "", 0)
\* UnexpectedStatus without the status code of the response.
SinkUnexpectedStatus_NoCode(status) == SinkVal("Err", "UnexpectedStatus", "", 0)
SinkUnexpectedStatus(status) == SinkVal("Err", "UnexpectedStatus", "", status)

\* the receiver was dropped before anything was sent
SinkClosed == SinkVal("Closed", "", "", 0)

\* A send that reaches a receiver that is gone.
Deliver_Reopen(snk, c, val) == [snk EXCEPT ![c] = val]

\* oneshot::Sender::send on the sink of command c; the callers discard the
\* Err it returns when the receiver is gone.
Deliver(snk, c, val) ==
    IF snk[c] = SinkClosed THEN snk ELSE [snk EXCEPT ![c] = val]

\* handle_response with the body lost on the way to the sink.
handle_response_NoBody(snk, c, status, body) ==
    IF status # 200
    THEN Deliver(snk, c, SinkUnexpectedStatus(status))
    ELSE Deliver(snk, c, SinkOk(""))

\* Describe::handle_response: Sdp::try_from never fails, the body is the Sdp.
handle_response(snk, c, status, body) ==
    IF status # 200
    THEN Deliver(snk, c, SinkUnexpectedStatus(status))
    ELSE Deliver(snk, c, SinkOk(body))

\* Describe::handle_error
handle_error(snk, c, err) == Deliver(snk, c, SinkErr(err))

\* -------------------------------------------------------------- responses
\* A WWW-Authenticate value as Authorizer::new sees it: the scheme token,
\* whether a second space-separated part follows it, whether every
\* comma-separated item of that part has a '=', and which keys it carries.
Challenge(scheme, data, kv, realm, nonce) ==
    [scheme |-> scheme, data |-> data, kv |-> kv, realm |-> realm, nonce |-> nonce]
BasicOk == Challenge("Basic", TRUE, TRUE, TRUE, FALSE)
DigestOk == Challenge("Digest", TRUE, TRUE, TRUE, TRUE)
DigestNoNonce == Challenge("Digest", TRUE, TRUE, TRUE, FALSE)
DigestBadItem == Challenge("Digest", TRUE, FALSE, TRUE, TRUE)
OtherScheme == Challenge("Bearer", TRUE, TRUE, TRUE, FALSE)
Challenges == {BasicOk, DigestOk, DigestNoNonce, DigestBadItem, OtherScheme}

Bodies == {"", "test"}

\* Options are sequences of length at most one.
None == << >>
Some(x) == << x >>
IsSome(o) == Len(o) = 1
Unwrap(o) == o[1]

Resp(cseq, status, www, body) ==
    [kind |-> "resp", cseq |-> cseq, status |-> status, www |-> www, body |-> body]
\* bytes the response parser rejects with a ParseError
Garbage == [kind |-> "garbage", cseq |-> None, status |-> 0, www |-> None, body |-> ""]
\* a well-formed response whose CSeq value is not a u32
BadCSeq == [kind |-> "badcseq", cseq |-> None, status |-> 200, www |-> None, body |-> ""]
NoFrame == [kind |-> "none", cseq |-> None, status |-> 0, www |-> None, body |-> ""]
\* an interleaved binary frame: '$', channel, length, payload
Interleaved ==
    [kind |-> "interleaved", cseq |-> None, status |-> 0, www |-> None, body |-> ""]

\* What the server may send while the channel's counter stands at n: CSeq
\* values 1..n-1 have been assigned, n stands for any value never assigned.
CSeqOpts(n) == {Some(k) : k \in 1..n}
Frames(n) ==
    {Garbage, BadCSeq, Resp(None, 200, None, ""), Resp(None, 401, Some(DigestOk), "")}
    \cup {Resp(k, 200, None, b) : k \in CSeqOpts(n), b \in Bodies}
    \cup {Resp(k, 404, None, "") : k \in CSeqOpts(n)}
    \cup {Resp(k, 401, None, "") : k \in CSeqOpts(n)}
    \cup {Resp(k, 401, Some(ch), "") : k \in CSeqOpts(n), ch \in Challenges}

\* ------------------------------------------------------------------ state
VARIABLES
    pc,           \* position of the channel task
    exitCause,    \* why the task ended
    user,         \* Channel.user is Some(..)
    cseq,         \* Channel.cseq
    buffer_tx,    \* requests serialised into buffer_tx and not yet written
    wire,         \* requests written to the stream, in order
    rx_frames,    \* complete responses in buffer_rx not yet consumed
    rx_frame,     \* the frame read_packet looked at last in handle_data
    rx_media,     \* buffer_rx begins with an interleaved frame already looked at
    intake,       \* cmd_rx: the command intake queue
    cmd_pending,  \* Channel.cmd_pending: CSeq -> command
    cmd_retry,    \* Channel.cmd_retry
    authorizer,   \* Channel.authorizer
    shutdown,     \* Channel.shutdown
    sink,         \* per command: what its reply receiver has got
    queue,        \* ReorderQueue.queue: sequence numbers, in the order pop yields
    max_len,      \* ReorderQueue.max_len
    last_read_sn, \* ReorderQueue.last_read_sn
    overflow_checks,  \* the build panics on integer overflow (debug profile)
    q_pc,         \* "ready", or "panicked" after an overflow panic
    q_ret,        \* the last reorder queue operation and what it returned
    offered,      \* sequence numbers passed to push_or_return, in order
    output,       \* sequence numbers returned by push_or_return or pop, in order
    data,         \* Buffer.data
    max_capacity, \* Buffer.max_capacity
    read_pos,     \* Buffer.read_pos
    write_pos,    \* Buffer.write_pos
    slice_len,    \* length of the slice get_write_slice returned, while it is usable
    b_ret,        \* the last Buffer operation, its argument and its result
    written,      \* bytes acknowledged with notify_write so far
    consumed,     \* bytes consumed with notify_read so far
    stream,       \* bytes the server has sent that no stream.read has returned yet
    buffer_rx,    \* buffer_rx.get_read_slice(): bytes received and not yet consumed
    rx_ret,       \* what the last handle_data did: bytes it saw, packets, how it ended
    state,        \* Parser.state
    pos,          \* Parser.pos
    header_length,   \* Parser.header_length
    content_length,  \* Parser.content_length
    items,        \* kinds of the items parse_next has yielded, in order
    p_ret,        \* the last parse_next: its result tag and the item it yielded
    packet_buf,   \* rtp: the bytes of the packet looked at (Packet.buf, BufPacket)
    pk_ret        \* rtp: the last operation on buf and its result

chanVars == << pc, exitCause, user, cseq, buffer_tx, wire, rx_frames, rx_frame,
               rx_media, intake, cmd_pending, cmd_retry, authorizer, shutdown, sink >>
queueVars == << queue, max_len, last_read_sn, overflow_checks, q_pc, q_ret,
                offered, output >>
bufVars == << data, max_capacity, read_pos, write_pos, slice_len, b_ret,
              written, consumed >>
rxVars == << stream, buffer_rx, rx_ret >>
parserVars == << state, pos, header_length, content_length, items, p_ret >>
pktVars == << packet_buf, pk_ret >>
vars == << chanVars, queueVars, bufVars, rxVars, parserVars, pktVars >>
nonChanVars == << queueVars, bufVars, rxVars, parserVars, pktVars >>
nonQueueVars == << chanVars, bufVars, rxVars, parserVars, pktVars >>
nonBufVars == << chanVars, queueVars, rxVars, parserVars, pktVars >>

\* The mutable fields of Channel the synchronous handlers work on.
Self ==
    [cseq |-> cseq, buffer_tx |-> buffer_tx, cmd_pending |-> cmd_pending,
     cmd_retry |-> cmd_retry, authorizer |-> authorizer, shutdown |-> shutdown,
     sink |-> sink]

Range(s) == {s[i] : i \in DOMAIN s}

\* A lookup that leaves the entry in the map (get instead of remove).
pending_remove_Keep(pending, k) == [cmd |-> pending[k], rest |-> pending]

\* Correlation by arrival order: the oldest pending entry answers any CSeq.
pending_remove_Oldest(pending, k) ==
    LET o == CHOOSE x \in DOMAIN pending : \A y \in DOMAIN pending : x <= y
    IN [cmd |-> pending[o], rest |-> [x \in (DOMAIN pending) \ {o} |-> pending[x]]]

\* HashMap::remove(&cseq) on cmd_pending, for a key that is present.
pending_remove(pending, k) ==
    [cmd |-> pending[k], rest |-> [x \in (DOMAIN pending) \ {k} |-> pending[x]]]

\* HashMap::insert(cseq, cmd) on cmd_pending.
pending_insert(pending, k, cmd) ==
    [x \in (DOMAIN pending) \cup {k} |-> IF x = k THEN cmd ELSE pending[x]]

\* ------------------------------------------------------------- authorizer
AuthNone == [kind |-> "None", nc |-> 0]
AuthBasic == [kind |-> "Basic", nc |-> 0]
\* Digest::new
DigestNew == [kind |-> "Digest", nc |-> 0]

\* Authorizer::new on a challenge: Ok(authorizer), Err(error) or a panic.
AuthorizerNew(ch) ==
    IF ~ch.data
    THEN [tag |-> "Err", auth |-> AuthNone, err |-> "InvalidHeader"]
    ELSE IF ch.scheme = "Basic"
    THEN [tag |-> "Ok", auth |-> AuthBasic, err |-> ""]
    ELSE IF ch.scheme = "Digest"
    THEN IF ~ch.kv
         THEN [tag |-> "Err", auth |-> AuthNone, err |-> "InvalidHeader"]
         ELSE IF ~ch.realm \/ ~ch.nonce
         THEN [tag |-> "Panic", auth |-> AuthNone, err |-> ""]
         ELSE [tag |-> "Ok", auth |-> DigestNew, err |-> ""]
    ELSE [tag |-> "Err", auth |-> AuthNone, err |-> "UnknownType"]

\* create_authorizer whose result is not built from the challenge.
create_authorizer_Discard(usr, www) ==
    IF ~IsSome(www)
    THEN [tag |-> "Err", auth |-> AuthNone, err |-> "BadResponse"]
    ELSE IF ~usr
    THEN [tag |-> "Err", auth |-> AuthNone, err |-> "Unauthorized"]
    ELSE LET r == AuthorizerNew(Unwrap(www)) IN
         IF r.tag = "Err" THEN [r EXCEPT !.err = "Unknown"]
         ELSE [r EXCEPT !.auth = AuthNone]

\* Channel::create_authorizer; errors already mapped by From<Error> for
\* CommandError (InvalidAuthorization falls under `_ => Unknown`).
create_authorizer(usr, www) ==
    IF ~IsSome(www)
    THEN [tag |-> "Err", auth |-> AuthNone, err |-> "BadResponse"]
    ELSE IF ~usr
    THEN [tag |-> "Err", auth |-> AuthNone, err |-> "Unauthorized"]
    ELSE LET r == AuthorizerNew(Unwrap(www)) IN
         IF r.tag = "Err" THEN [r EXCEPT !.err = "Unknown"] ELSE r

\* RequestBuilder::new(): the header lines of a request, in order.
RequestBuilderNew == << >>
\* RequestBuilder::header
header(builder, name, value) == Append(builder, [name |-> name, value |-> value])

\* A write that serialises the builder as it got it.
AuthorizerHeaders_NoAuth(auth, builder) == builder

\* Basic::write / Digest::write / None::write: the header lines serialised.
\* The Authorization value is represented by the scheme and, for Digest,
\* the nc it prints (the value of self.nc before the increment).
AuthorizerHeaders(auth, builder) ==
    IF auth.kind = "None"
    THEN builder
    ELSE header(builder, "Authorization", [kind |-> auth.kind, nc |-> auth.nc])

\* Authorizer::write: the request as serialised, and the authorizer after it.
AuthorizerWrite(auth, cmd, n, builder) ==
    [req |-> [cmd |-> cmd, cseq |-> n, auth |-> auth.kind, nc |-> auth.nc,
              headers |-> AuthorizerHeaders(auth, builder)],
     auth |-> IF auth.kind = "Digest" THEN [auth EXCEPT !.nc = auth.nc + 1] ELSE auth]

\* --------------------------------------------------------------- handlers
\* next_cseq without the increment.
next_cseq_NoIncrement(ch) == [val |-> ch.cseq, ch |-> ch]

\* Channel::next_cseq: the value handed out, and the counter after it.
next_cseq(ch) == [val |-> ch.cseq, ch |-> [ch EXCEPT !.cseq = ch.cseq + 1]]

\* Channel::handle_command
handle_command(ch, cmd) ==
    LET nx == next_cseq(ch)
        builder == header(header(RequestBuilderNew, "CSeq", nx.val),
                          "User-Agent", "rs-streamer")
        w == AuthorizerWrite(nx.ch.authorizer, cmd, nx.val, builder)
    IN [nx.ch EXCEPT !.buffer_tx = Append(nx.ch.buffer_tx, w.req),
                     !.authorizer = w.auth,
                     !.cmd_pending = pending_insert(nx.ch.cmd_pending, nx.val, cmd)]

\* A pop at the wrong end of the deque.
pop_front_Back(q) == [val |-> q[Len(q)], rest |-> SubSeq(q, 1, Len(q) - 1)]

\* VecDeque::pop_front on a deque that is not empty.
pop_front(q) == [val |-> Head(q), rest |-> Tail(q)]

\* Channel::handle_retry_cmds
RECURSIVE handle_retry_cmds(_)
handle_retry_cmds(ch) ==
    IF ch.cmd_retry = << >>
    THEN ch
    ELSE handle_retry_cmds(
             handle_command([ch EXCEPT !.cmd_retry = pop_front(ch.cmd_retry).rest],
                            pop_front(ch.cmd_retry).val))

\* shutdown that iterates over cmd_pending without draining it.
shutdown_NoDrain(ch) ==
    [ch EXCEPT !.shutdown = TRUE,
               !.sink = [c \in CmdIds |->
                            IF c \in Range(ch.cmd_pending)
                            THEN handle_error(ch.sink, c, "Cancelled")[c]
                            ELSE ch.sink[c]]]

\* shutdown that sets the flag and leaves cmd_pending alone.
shutdown_FlagOnly(ch) == [ch EXCEPT !.shutdown = TRUE]

\* Channel::shutdown
shutdown_(ch) ==
    [ch EXCEPT !.shutdown = TRUE,
               !.cmd_pending = << >>,
               !.sink = [c \in CmdIds |->
                            IF c \in Range(ch.cmd_pending)
                            THEN handle_error(ch.sink, c, "Cancelled")[c]
                            ELSE ch.sink[c]]]

\* Channel::read_rtsp_packet on the response f: Ok(n), Err(fatal) or a panic.
read_rtsp_packet(ch, usr, f) ==
    IF f.kind = "garbage"
    THEN [result |-> "Err", ch |-> ch]
    ELSE IF f.kind = "badcseq" \/ ~IsSome(f.cseq)
    THEN [result |-> "Err", ch |-> ch]
    ELSE IF Unwrap(f.cseq) \notin DOMAIN ch.cmd_pending
    THEN [result |-> "Err", ch |-> ch]
    ELSE
      LET k == Unwrap(f.cseq)
          rm == pending_remove(ch.cmd_pending, k)
          cmd == rm.cmd
          ch1 == [ch EXCEPT !.cmd_pending = rm.rest]
      IN
      IF f.status = 401
      THEN LET r == create_authorizer(usr, f.www) IN
           IF r.tag = "Panic"
           THEN [result |-> "Panic", ch |-> ch1]
           ELSE IF r.tag = "Ok"
           THEN [result |-> "Ok",
                 ch |-> [ch1 EXCEPT !.authorizer = r.auth,
                                    !.cmd_retry = Append(ch1.cmd_retry, cmd)]]
           ELSE [result |-> "Ok",
                 ch |-> [ch1 EXCEPT !.sink = handle_error(ch1.sink, cmd, r.err)]]
      ELSE IF f.status = 200
      THEN [result |-> "Ok",
            ch |-> [ch1 EXCEPT
                      !.sink = handle_response(ch1.sink, cmd, f.status, f.body)]]
      ELSE [result |-> "Ok",
            ch |-> [ch1 EXCEPT
                      !.sink = Deliver(ch1.sink, cmd, SinkUnexpectedStatus(f.status))]]

\* Channel::read_rtp_or_rtcp_packet: Ok(0), the frames it consumes.
read_rtp_or_rtcp_packet == 0

\* The task ends and the Channel is dropped: every command it still owns (in
\* cmd_rx, cmd_pending, cmd_retry, or the local `cmd` of a panicking handler)
\* loses its sender without a send. The collections keep their last value.
DropChannel(snk) ==
    [c \in CmdIds |-> IF snk[c].res = "Waiting" THEN SinkDropped ELSE snk[c]]

Stopped == {"terminated", "panicked"}

\* ------------------------------------------------------------------- init
\* The channel owns no ReorderQueue: the queue's variables stay at rest.
NoReorderQueue ==
    /\ queue = << >>
    /\ max_len = 0
    /\ last_read_sn = 0
    /\ overflow_checks = FALSE
    /\ q_pc = "ready"
    /\ q_ret = [op |-> "none", val |-> None]
    /\ offered = << >>
    /\ output = << >>

\* No Buffer is exercised on its own: the buffer's variables stay at rest.
NoBuffer ==
    /\ data = << >>
    /\ max_capacity = 0
    /\ read_pos = 0
    /\ write_pos = 0
    /\ slice_len = 0
    /\ b_ret = [op |-> "none", n |-> 0, tag |-> "Ok"]
    /\ written = 0
    /\ consumed = 0

\* No bytes are on their way to buffer_rx: the receive variables stay at rest.
NoReceive ==
    /\ stream = << >>
    /\ buffer_rx = << >>
    /\ rx_ret = [seen |-> << >>, consumed |-> << >>, tag |-> "none"]

\* No Parser is exercised on its own: the parser's variables stay at rest.
NoParser ==
    /\ state = "ExpectProtocol"
    /\ pos = 0
    /\ header_length = 0
    /\ content_length = 0
    /\ items = << >>
    /\ p_ret = [tag |-> "none", item |-> << >>]

\* No rtp packet is looked at: the packet variables stay at rest.
NoPacket ==
    /\ packet_buf = << >>
    /\ pk_ret = [op |-> "none", tag |-> "Ok", val |-> << >>]

\* Channel::new, followed by the optional user()/pass() builders.
ChannelNew ==
    /\ pc = "top"
    /\ exitCause = "none"
    /\ user \in BOOLEAN
    /\ cseq = 1
    /\ buffer_tx = << >>
    /\ wire = << >>
    /\ rx_frames = 0
    /\ rx_frame = NoFrame
    /\ rx_media = FALSE
    /\ intake = << >>
    /\ cmd_pending = << >>
    /\ cmd_retry = << >>
    /\ authorizer = AuthNone
    /\ shutdown = FALSE
    /\ sink = [c \in CmdIds |-> SinkIdle]

Init == ChannelNew /\ NoReorderQueue /\ NoBuffer /\ NoReceive /\ NoParser /\ NoPacket

\* ---------------------------------------------------------------- actions
\* A caller sends command c on cmd_tx (the receiver is still alive).
Submit(c) ==
    /\ pc \notin Stopped
    /\ sink[c] = SinkIdle
    /\ \A d \in 1..(c - 1) : sink[d] # SinkIdle
    /\ Len(intake) < IntakeCap
    /\ intake' = Append(intake, c)
    /\ sink' = [sink EXCEPT ![c] = SinkWaiting]
    /\ UNCHANGED << pc, exitCause, user, cseq, buffer_tx, wire, rx_frames, rx_frame,
                    rx_media, cmd_pending, cmd_retry, authorizer, shutdown >>
    /\ UNCHANGED nonChanVars

\* The task leaves poll_until_shutdown and run() drops the Channel.
Exit(cause, position) ==
    /\ pc' = position
    /\ exitCause' = cause
    /\ sink' = DropChannel(sink)

\* poll_until_shutdown: `while !self.shutdown` is false.
LoopExit ==
    /\ pc = "top"
    /\ shutdown
    /\ Exit("shutdown", "terminated")
    /\ rx_frame' = NoFrame
    /\ UNCHANGED << user, cseq, buffer_tx, wire, rx_frames, rx_media, intake,
                    cmd_pending, cmd_retry, authorizer, shutdown >>
    /\ UNCHANGED nonChanVars

\* A loop head that does not look at the shutdown flag.
FlushOk_AfterShutdown ==
    /\ pc = "top"
    /\ LET ch == handle_retry_cmds(Self) IN
         /\ cseq' = ch.cseq
         /\ cmd_pending' = ch.cmd_pending
         /\ cmd_retry' = ch.cmd_retry
         /\ authorizer' = ch.authorizer
         /\ wire' = wire \o ch.buffer_tx
         /\ buffer_tx' = << >>
    /\ pc' = "select"
    /\ rx_frame' = NoFrame
    /\ UNCHANGED << exitCause, user, rx_frames, rx_media, intake, shutdown, sink >>
    /\ UNCHANGED nonChanVars

\* poll_until_shutdown: handle_retry_cmds, then send_outstanding_data succeeds.
FlushOk ==
    /\ pc = "top"
    /\ ~shutdown
    /\ LET ch == handle_retry_cmds(Self) IN
         /\ cseq' = ch.cseq
         /\ cmd_pending' = ch.cmd_pending
         /\ cmd_retry' = ch.cmd_retry
         /\ authorizer' = ch.authorizer
         /\ wire' = wire \o ch.buffer_tx
         /\ buffer_tx' = << >>
    /\ pc' = "select"
    /\ rx_frame' = NoFrame
    /\ UNCHANGED << exitCause, user, rx_frames, rx_media, intake, shutdown, sink >>
    /\ UNCHANGED nonChanVars

\* poll_until_shutdown: handle_retry_cmds, then write_all fails and `?` returns.
FlushErr ==
    /\ pc = "top"
    /\ ~shutdown
    /\ LET ch == handle_retry_cmds(Self) IN
         /\ ch.buffer_tx # << >>
         /\ cseq' = ch.cseq
         /\ cmd_pending' = ch.cmd_pending
         /\ cmd_retry' = ch.cmd_retry
         /\ authorizer' = ch.authorizer
         /\ buffer_tx' = ch.buffer_tx
    /\ Exit("write_err", "terminated")
    /\ rx_frame' = NoFrame
    /\ UNCHANGED << user, wire, rx_frames, rx_media, intake, shutdown >>
    /\ UNCHANGED nonChanVars

\* select!: stream.read returns n > 0 bytes holding `n` complete responses.
StreamRead(n) ==
    /\ pc = "select"
    /\ rx_frames + n <= MaxBatch + 1
    /\ rx_frames' = rx_frames + n
    /\ pc' = "handle_data"
    /\ UNCHANGED << exitCause, user, cseq, buffer_tx, wire, rx_frame, rx_media, intake,
                    cmd_pending, cmd_retry, authorizer, shutdown, sink >>
    /\ UNCHANGED nonChanVars

\* select!: stream.read returns Ok(0).
StreamEof ==
    /\ pc = "select"
    /\ Exit("eof", "terminated")
    /\ UNCHANGED << user, cseq, buffer_tx, wire, rx_frames, rx_frame, rx_media, intake,
                    cmd_pending, cmd_retry, authorizer, shutdown >>
    /\ UNCHANGED nonChanVars

\* select!: stream.read returns Err.
StreamReadErr ==
    /\ pc = "select"
    /\ Exit("read_err", "terminated")
    /\ UNCHANGED << user, cseq, buffer_tx, wire, rx_frames, rx_frame, rx_media, intake,
                    cmd_pending, cmd_retry, authorizer, shutdown >>
    /\ UNCHANGED nonChanVars

\* select!: cmd_rx.recv() yields a command.
RecvCommand ==
    /\ pc = "select"
    /\ intake # << >>
    /\ cseq <= MaxCSeq
    /\ LET ch == handle_command(Self, Head(intake)) IN
         /\ cseq' = ch.cseq
         /\ buffer_tx' = ch.buffer_tx
         /\ cmd_pending' = ch.cmd_pending
         /\ authorizer' = ch.authorizer
    /\ intake' = Tail(intake)
    /\ pc' = "top"
    /\ UNCHANGED << exitCause, user, wire, rx_frames, rx_frame, rx_media, cmd_retry,
                    shutdown, sink >>
    /\ UNCHANGED nonChanVars

\* handle_data, one turn of its loop: read_packet on the response f at the
\* head of buffer_rx, then notify_read, or shutdown on a fatal error.
HandlePacket(f) ==
    /\ pc = "handle_data"
    /\ rx_frames > 0
    /\ ~rx_media
    /\ LET r == read_rtsp_packet(Self, user, f) IN
         /\ Len(r.ch.cmd_retry) + r.ch.cseq - 1 <= MaxCSeq
         /\ rx_frame' = f
         /\ cmd_retry' = r.ch.cmd_retry
         /\ authorizer' = r.ch.authorizer
         /\ IF r.result = "Panic"
            THEN /\ Exit("panic", "panicked")
                 /\ cmd_pending' = r.ch.cmd_pending
                 /\ UNCHANGED << shutdown, rx_frames >>
            ELSE IF r.result = "Err"
            THEN LET ch == shutdown_(r.ch) IN
                 /\ shutdown' = ch.shutdown
                 /\ cmd_pending' = ch.cmd_pending
                 /\ sink' = ch.sink
                 /\ pc' = "top"
                 /\ UNCHANGED << exitCause, rx_frames >>
            ELSE /\ sink' = r.ch.sink
                 /\ cmd_pending' = r.ch.cmd_pending
                 /\ rx_frames' = rx_frames - 1
                 /\ pc' = IF rx_frames = 1 THEN "top" ELSE "handle_data"
                 /\ UNCHANGED << exitCause, shutdown >>
    /\ UNCHANGED << user, cseq, buffer_tx, wire, rx_media, intake >>
    /\ UNCHANGED nonChanVars

\* handle_data when buffer_rx begins with '$': read_packet returns what
\* read_rtp_or_rtcp_packet returns, and handle_data breaks on n == 0 without
\* notify_read, so the frame is still at the head of buffer_rx afterwards.
HandleMedia ==
    /\ pc = "handle_data"
    /\ rx_frames > 0
    /\ rx_frame' = Interleaved
    /\ rx_media' = TRUE
    /\ rx_frames' = rx_frames - read_rtp_or_rtcp_packet
    /\ pc' = "top"
    /\ UNCHANGED << exitCause, user, cseq, buffer_tx, wire, intake, cmd_pending,
                    cmd_retry, authorizer, shutdown, sink >>
    /\ UNCHANGED nonChanVars

Next ==
    \/ \E c \in CmdIds : Submit(c)
    \/ LoopExit
    \/ FlushOk
    \/ FlushErr
    \/ \E n \in 1..MaxBatch : StreamRead(n)
    \/ StreamEof
    \/ StreamReadErr
    \/ RecvCommand
    \/ \E f \in Frames(cseq) : HandlePacket(f)
    \/ HandleMedia

Spec == Init /\ [][Next]_vars

\* ---------------------------------------------------------- reorder queue
\* src/src/rtp/queue.rs. A packet is represented by its sequence number, the
\* only field Ord for Packet and ReorderQueue look at.
U16 == 65536
\* The sequence numbers offered: both ends of the u16 range.
SeqNums == {0, 1, 2, 3, 65534, 65535}

\* `x + 1` on a u16: whether it overflows, and the value a build without
\* overflow checks computes.
Overflows(x) == x + 1 >= U16
Add1(x) == (x + 1) % U16

\* Ord for Packet: other.sequence_number().cmp(&self.sequence_number()), so
\* the greatest packet of the max-heap has the numerically smallest number.
PacketGreater(a, b) == a < b

\* BinaryHeap::push, the heap kept as the sequence pop would yield.
RECURSIVE heap_push(_, _)
heap_push(q, sn) ==
    IF q = << >> THEN << sn >>
    ELSE IF PacketGreater(sn, Head(q)) THEN << sn >> \o q
    ELSE << Head(q) >> \o heap_push(Tail(q), sn)

\* The fields of a ReorderQueue.
QSelf == [queue |-> queue, max_len |-> max_len, last_read_sn |-> last_read_sn]

\* ReorderQueue::new
ReorderQueueNew(n) == [queue |-> << >>, max_len |-> n, last_read_sn |-> 0]

\* ReorderQueue::pop: Ok(returned option) or an overflow panic.
pop(self, checks) ==
    IF self.queue = << >>
    THEN [tag |-> "Ok", val |-> None, self |-> self]
    ELSE IF checks /\ Overflows(self.last_read_sn)
    THEN [tag |-> "Panic", val |-> None, self |-> self]
    ELSE IF \/ Head(self.queue) = Add1(self.last_read_sn)
            \/ Len(self.queue) >= self.max_len
    THEN [tag |-> "Ok", val |-> Some(Head(self.queue)),
          self |-> [self EXCEPT !.last_read_sn = Head(self.queue),
                                !.queue = Tail(self.queue)]]
    ELSE [tag |-> "Ok", val |-> None, self |-> self]

\* ReorderQueue::push_or_return: Ok(returned option) or an overflow panic.
push_or_return(self, sn, checks) ==
    IF self.last_read_sn # 0 /\ checks /\ Overflows(self.last_read_sn)
    THEN [tag |-> "Panic", val |-> None, self |-> self]
    ELSE IF self.last_read_sn = 0 \/ sn = Add1(self.last_read_sn)
    THEN [tag |-> "Ok", val |-> Some(sn), self |-> [self EXCEPT !.last_read_sn = sn]]
    ELSE IF sn < self.last_read_sn
    THEN [tag |-> "Ok", val |-> None, self |-> self]
    ELSE [tag |-> "Ok", val |-> None,
          self |-> [self EXCEPT !.queue = heap_push(self.queue, sn)]]

\* The channel at rest while a ReorderQueue is exercised on its own.
QInit ==
    /\ ChannelNew
    /\ ~user
    /\ NoBuffer
    /\ NoReceive
    /\ NoParser
    /\ NoPacket
    /\ \E n \in 1..MaxLen :
          /\ queue = ReorderQueueNew(n).queue
          /\ max_len = ReorderQueueNew(n).max_len
          /\ last_read_sn = ReorderQueueNew(n).last_read_sn
    /\ overflow_checks \in BOOLEAN
    /\ q_pc = "ready"
    /\ q_ret = [op |-> "none", val |-> None]
    /\ offered = << >>
    /\ output = << >>

\* What an operation's result r does to the queue and to the record of it.
QApply(op, r) ==
    /\ queue' = r.self.queue
    /\ last_read_sn' = r.self.last_read_sn
    /\ q_pc' = IF r.tag = "Panic" THEN "panicked" ELSE "ready"
    /\ q_ret' = [op |-> op, val |-> r.val]
    /\ output' = IF IsSome(r.val) THEN Append(output, Unwrap(r.val)) ELSE output

\* A caller offers a packet with sequence number sn.
Offer(sn) ==
    /\ q_pc = "ready"
    /\ Len(offered) < MaxOffers
    /\ offered' = Append(offered, sn)
    /\ QApply("offer", push_or_return(QSelf, sn, overflow_checks))
    /\ UNCHANGED << max_len, overflow_checks >>
    /\ UNCHANGED nonQueueVars

\* A caller polls the queue.
Poll ==
    /\ q_pc = "ready"
    /\ QApply("poll", pop(QSelf, overflow_checks))
    /\ UNCHANGED << max_len, overflow_checks, offered >>
    /\ UNCHANGED nonQueueVars

QNext ==
    \/ \E sn \in SeqNums : Offer(sn)
    \/ Poll

QueueSpec == QInit /\ [][QNext]_vars

\* ------------------------------------------------------------ ring buffer
\* src/src/rtsp/buffer.rs. Bytes are numbered in the order they are written:
\* the i-th byte a writer copies into a slice has the value i; storage that
\* Vec::resize adds is zero-filled.

\* The fields of a Buffer.
BSelf ==
    [data |-> data, max_capacity |-> max_capacity,
     read_pos |-> read_pos, write_pos |-> write_pos]

\* Buffer::new
BufferNew(cap) ==
    [data |-> << >>, max_capacity |-> cap, read_pos |-> 0, write_pos |-> 0]

\* Buffer::get_read_slice: &data[read_pos..write_pos]
get_read_slice(self) == SubSeq(self.data, self.read_pos + 1, self.write_pos)

\* notify_read that only advances read_pos.
notify_read_NoReset(self, n) == [self EXCEPT !.read_pos = self.read_pos + n]

\* Buffer::notify_read
notify_read(self, n) ==
    IF self.read_pos + n = self.write_pos
    THEN [self EXCEPT !.read_pos = 0, !.write_pos = 0]
    ELSE [self EXCEPT !.read_pos = self.read_pos + n]

\* slice::copy_within(read_pos..write_pos, 0)
copy_within(d, from, to) ==
    [i \in 1..Len(d) |-> IF i <= to - from THEN d[from + i] ELSE d[i]]

\* Vec::resize(n, 0) for n >= len
resize(d, n) == [i \in 1..n |-> IF i <= Len(d) THEN d[i] ELSE 0]

\* get_write_slice that grows the storage without looking at max_capacity.
get_write_slice_NoCap(self, n) ==
    IF self.write_pos + n > Len(self.data)
    THEN IF n <= self.read_pos
         THEN [tag |-> "Ok",
               self |-> [self EXCEPT
                           !.data = copy_within(self.data, self.read_pos, self.write_pos),
                           !.write_pos = self.write_pos - self.read_pos,
                           !.read_pos = 0]]
         ELSE [tag |-> "Ok",
               self |-> [self EXCEPT !.data = resize(self.data, self.write_pos + n)]]
    ELSE [tag |-> "Ok", self |-> self]

\* get_write_slice that compacts by moving the cursors only.
get_write_slice_NoCopy(self, n) ==
    IF self.write_pos + n > Len(self.data)
    THEN IF n <= self.read_pos
         THEN [tag |-> "Ok",
               self |-> [self EXCEPT !.write_pos = self.write_pos - self.read_pos,
                                     !.read_pos = 0]]
         ELSE IF self.write_pos + n <= self.max_capacity
         THEN [tag |-> "Ok",
               self |-> [self EXCEPT !.data = resize(self.data, self.write_pos + n)]]
         ELSE [tag |-> "Err", self |-> self]
    ELSE [tag |-> "Ok", self |-> self]

\* Buffer::get_write_slice: Ok (the slice is &mut data[write_pos..]) or
\* Err(NotEnoughSpace), and the buffer after the call.
get_write_slice(self, n) ==
    IF self.write_pos + n > Len(self.data)
    THEN IF n <= self.read_pos
         THEN [tag |-> "Ok",
               self |-> [self EXCEPT
                           !.data = copy_within(self.data, self.read_pos, self.write_pos),
                           !.write_pos = self.write_pos - self.read_pos,
                           !.read_pos = 0]]
         ELSE IF self.write_pos + n <= self.max_capacity
         THEN [tag |-> "Ok",
               self |-> [self EXCEPT !.data = resize(self.data, self.write_pos + n)]]
         ELSE [tag |-> "Err", self |-> self]
    ELSE [tag |-> "Ok", self |-> self]

\* Buffer::notify_write
notify_write(self, n) == [self EXCEPT !.write_pos = self.write_pos + n]

\* The writer copies the bytes first+1 .. first+k to the start of the slice.
fill_slice(self, first, k) ==
    [self EXCEPT !.data = [i \in 1..Len(self.data) |->
                              IF i > self.write_pos /\ i <= self.write_pos + k
                              THEN first + (i - self.write_pos)
                              ELSE self.data[i]]]

BApply(self) ==
    /\ data' = self.data
    /\ read_pos' = self.read_pos
    /\ write_pos' = self.write_pos

\* The channel and the reorder queue at rest while a Buffer is exercised.
BInit ==
    /\ ChannelNew
    /\ ~user
    /\ NoReorderQueue
    /\ NoReceive
    /\ NoParser
    /\ NoPacket
    /\ \E cap \in 1..MaxCapacity :
          /\ data = BufferNew(cap).data
          /\ max_capacity = BufferNew(cap).max_capacity
          /\ read_pos = BufferNew(cap).read_pos
          /\ write_pos = BufferNew(cap).write_pos
    /\ slice_len = 0
    /\ b_ret = [op |-> "none", n |-> 0, tag |-> "Ok"]
    /\ written = 0
    /\ consumed = 0

\* A caller asks for a writable slice of at least n bytes.
GetWriteSlice(n) ==
    /\ LET r == get_write_slice(BSelf, n) IN
         /\ BApply(r.self)
         /\ b_ret' = [op |-> "get_write_slice", n |-> n, tag |-> r.tag]
         /\ slice_len' = IF r.tag = "Ok" THEN Len(r.self.data) - r.self.write_pos
                         ELSE 0
    /\ UNCHANGED << max_capacity, written, consumed >>
    /\ UNCHANGED nonBufVars

\* The caller copies k bytes into the slice it holds and acknowledges them.
NotifyWrite(k) ==
    /\ k <= slice_len
    /\ written + k <= MaxBytes
    /\ BApply(notify_write(fill_slice(BSelf, written, k), k))
    /\ written' = written + k
    /\ slice_len' = 0
    /\ b_ret' = [op |-> "notify_write", n |-> k, tag |-> "Ok"]
    /\ UNCHANGED << max_capacity, consumed >>
    /\ UNCHANGED nonBufVars

\* The caller consumes k of the unread bytes.
NotifyRead(k) ==
    /\ k <= write_pos - read_pos
    /\ BApply(notify_read(BSelf, k))
    /\ consumed' = consumed + k
    /\ slice_len' = 0
    /\ b_ret' = [op |-> "notify_read", n |-> k, tag |-> "Ok"]
    /\ UNCHANGED << max_capacity, written >>
    /\ UNCHANGED nonBufVars

BNext ==
    \/ \E n \in 0..(MaxCapacity + 1) : GetWriteSlice(n)
    \/ \E k \in 0..MaxCapacity : NotifyWrite(k)
    \/ \E k \in 0..MaxCapacity : NotifyRead(k)

BufferSpec == BInit /\ [][BNext]_vars

\* =================================================================== text
\* Text is a sequence of one-character strings; the bytes on the stream are
\* ASCII, so a byte and a char are the same thing.
Digits == << "0", "1", "2", "3", "4", "5", "6", "7", "8", "9" >>
UpperCase == << "A", "B", "C", "D", "E", "F", "G", "H", "I", "J", "K", "L", "M",
                "N", "O", "P", "Q", "R", "S", "T", "U", "V", "W", "X", "Y", "Z" >>
LowerCase == << "a", "b", "c", "d", "e", "f", "g", "h", "i", "j", "k", "l", "m",
                "n", "o", "p", "q", "r", "s", "t", "u", "v", "w", "x", "y", "z" >>
\* (the double quote, the backslash and the grave accent are graphic too; no
\* text here has them)
Punctuation == { "!", "#", "$", "%", "&", "'", "(", ")", "*", "+", ",", "-",
                 ".", "/", ":", ";", "<", "=", ">", "?", "@", "[", "]", "^",
                 "_", "{", "|", "}", "~" }

is_ascii_digit(c) == \E i \in DOMAIN Digits : Digits[i] = c
to_digit(c) == (CHOOSE i \in DOMAIN Digits : Digits[i] = c) - 1
is_ascii_alphanumeric(c) == c \in Range(Digits) \cup Range(UpperCase) \cup Range(LowerCase)
is_ascii_graphic(c) == is_ascii_alphanumeric(c) \/ c \in Punctuation
is_ascii_whitespace(c) == c \in {" ", "\t", "\n", "\f", "\r"}
\* char::is_whitespace, on ASCII (the vertical tab is not in the alphabet)
is_whitespace(c) == c \in {" ", "\t", "\n", "\f", "\r"}

to_ascii_lowercase(c) ==
    IF c \in Range(UpperCase)
    THEN LowerCase[CHOOSE i \in DOMAIN UpperCase : UpperCase[i] = c]
    ELSE c
eq_ignore_ascii_case(a, b) ==
    /\ Len(a) = Len(b)
    /\ \A i \in DOMAIN a : to_ascii_lowercase(a[i]) = to_ascii_lowercase(b[i])

\* F(v) for the value v of x, with x computed once.
With(x, F(_)) == CHOOSE y \in {F(v) : v \in {x}} : TRUE

\* s[from..] for from <= s.len()
SliceFrom(s, from) == SubSeq(s, from + 1, Len(s))

\* The index of the first c in s, 0 if there is none.
find(s, c) ==
    IF \E i \in DOMAIN s : s[i] = c
    THEN CHOOSE i \in DOMAIN s : s[i] = c /\ \A j \in 1..(i - 1) : s[j] # c
    ELSE 0

\* str::split(c), all pieces
RECURSIVE split(_, _)
split(s, c) ==
    IF find(s, c) = 0
    THEN << s >>
    ELSE << SubSeq(s, 1, find(s, c) - 1) >> \o split(SliceFrom(s, find(s, c)), c)

\* str::splitn(2, c)
splitn2(s, c) ==
    IF find(s, c) = 0
    THEN << s >>
    ELSE << SubSeq(s, 1, find(s, c) - 1), SliceFrom(s, find(s, c)) >>

\* data.split("\r\n").next(): the text before the first CR LF, all of it if
\* there is none. The iterator's first item always exists.
first_line(s) ==
    IF \E i \in 1..(Len(s) - 1) : s[i] = "\r" /\ s[i + 1] = "\n"
    THEN SubSeq(s, 1, (CHOOSE i \in 1..(Len(s) - 1) :
                          /\ s[i] = "\r" /\ s[i + 1] = "\n"
                          /\ \A j \in 1..(i - 1) : ~(s[j] = "\r" /\ s[j + 1] = "\n")) - 1)
    ELSE s

\* str::trim_start / str::trim
RECURSIVE trim_start(_)
trim_start(s) ==
    IF s # << >> /\ is_whitespace(s[1]) THEN trim_start(Tail(s)) ELSE s
RECURSIVE trim_end(_)
trim_end(s) ==
    IF s # << >> /\ is_whitespace(s[Len(s)])
    THEN trim_end(SubSeq(s, 1, Len(s) - 1))
    ELSE s
trim(s) == trim_end(trim_start(s))

\* line.split_whitespace().next()
split_whitespace_next(line) ==
    LET t == trim_start(line) IN
    IF t = << >>
    THEN None
    ELSE IF \E i \in DOMAIN t : is_whitespace(t[i])
    THEN Some(SubSeq(t, 1, (CHOOSE i \in DOMAIN t :
                               /\ is_whitespace(t[i])
                               /\ \A j \in 1..(i - 1) : ~is_whitespace(t[j])) - 1))
    ELSE Some(t)

\* The number a run of digits denotes.
RECURSIVE digits_value(_)
digits_value(s) ==
    IF s = << >>
    THEN 0
    ELSE 10 * digits_value(SubSeq(s, 1, Len(s) - 1)) + to_digit(s[Len(s)])

\* str::parse for the unsigned integer types: an optional '+', then at least
\* one digit, nothing else. The texts explored have at most five digits, far
\* from the range of u32 and usize; u8 is checked against its range.
parse_uint(s) ==
    LET d == IF s # << >> /\ s[1] = "+" THEN Tail(s) ELSE s IN
    IF d = << >> \/ \E i \in DOMAIN d : ~is_ascii_digit(d[i])
    THEN None
    ELSE Some(digits_value(d))
parse_u8(s) ==
    IF IsSome(parse_uint(s)) /\ Unwrap(parse_uint(s)) <= 255 THEN parse_uint(s) ELSE None

\* ======================================================== response parser
\* src/src/rtsp/response.rs. The channel names it ResponseParser.
StatusCodes ==
    {100, 200, 201, 250, 300, 301, 302, 303, 304, 305, 400, 401, 402, 403, 404,
     405, 406, 407, 408, 410, 411, 412, 413, 414, 415, 451, 452, 453, 454, 455,
     456, 457, 458, 459, 460, 461, 462, 500, 501, 502, 503, 504, 505, 551}

\* Version::from_str succeeds
VersionFromStr(s) ==
    LET p == split(s, ".") IN
    /\ IsSome(parse_u8(p[1]))
    /\ Len(p) = 2
    /\ IsSome(parse_u8(p[2]))

\* Protocol::from_str succeeds
ProtocolFromStr(s) ==
    LET p == split(s, "/") IN
    /\ p[1] = << "R", "T", "S", "P" >>
    /\ Len(p) >= 2
    /\ VersionFromStr(p[2])

\* Status::from_str: the status code, None on an error
StatusFromStr(s) ==
    IF IsSome(parse_uint(s)) /\ Unwrap(parse_uint(s)) \in StatusCodes
    THEN parse_uint(s)
    ELSE None

verify_header_name(name) ==
    /\ Len(name) > 0
    /\ \A i \in DOMAIN name : is_ascii_alphanumeric(name[i]) \/ name[i] \in {"-", "_"}
verify_header_value(value) ==
    \A i \in DOMAIN value : is_ascii_graphic(value[i]) \/ is_ascii_whitespace(value[i])

\* Header::try_from(line): the header, None on an error
HeaderTryFrom(line) ==
    LET p == splitn2(line, ":") IN
    IF verify_header_name(p[1]) /\ Len(p) = 2 /\ verify_header_value(p[2])
    THEN Some([name |-> p[1], value |-> trim(p[2])])
    ELSE None

\* The mutable fields of Parser.
PSelf ==
    [state |-> state, pos |-> pos, header_length |-> header_length,
     content_length |-> content_length]

\* Parser::new
ParserNew ==
    [state |-> "ExpectProtocol", pos |-> 0, header_length |-> 0, content_length |-> 0]

\* ParseItem
Item(kind, code, name, value) ==
    [kind |-> kind, code |-> code, name |-> name, value |-> value]
\* What a parsing method returns: Ok(item), Err(ParseError) or a panic, and
\* the parser it leaves behind.
Parsed(tag, item, self) == [tag |-> tag, item |-> item, self |-> self]

\* Parser::get_next_line
get_next_line(self, d) ==
    IF self.pos > Len(d)
    THEN [tag |-> "Panic", line |-> << >>, self |-> self]
    ELSE LET line == first_line(SliceFrom(d, self.pos)) IN
         [tag |-> "Ok", line |-> line,
          self |-> [self EXCEPT !.pos = self.pos + Len(line) + 2]]

\* Parser::get_next_token
get_next_token(self, d) ==
    IF self.pos > Len(d)
    THEN [tag |-> "Panic", token |-> << >>, self |-> self]
    ELSE LET line == first_line(SliceFrom(d, self.pos))
             t == split_whitespace_next(line)
         IN IF ~IsSome(t)
            THEN [tag |-> "Err", token |-> << >>, self |-> self]
            ELSE [tag |-> "Ok", token |-> Unwrap(t),
                  self |-> [self EXCEPT !.pos =
                              self.pos + Len(Unwrap(t))
                              + (IF Len(line) > Len(Unwrap(t)) THEN 1 ELSE 0)]]

\* Parser::discard_line
discard_line(self, d) ==
    IF self.pos > Len(d)
    THEN [tag |-> "Panic", self |-> self]
    ELSE [tag |-> "Ok",
          self |-> [self EXCEPT !.pos =
                      self.pos + Len(first_line(SliceFrom(d, self.pos))) + 2]]

\* Parser::parse_protocol
parse_protocol(self, d) ==
    LET t == get_next_token(self, d) IN
    IF t.tag # "Ok"
    THEN Parsed(t.tag, None, t.self)
    ELSE IF ~ProtocolFromStr(t.token)
    THEN Parsed("Err", None, t.self)
    ELSE Parsed("Ok", Some(Item("Protocol", 0, << >>, << >>)),
                [t.self EXCEPT !.state = "ExpectStatus"])

\* Parser::parse_status
parse_status(self, d) ==
    LET t == get_next_token(self, d) IN
    IF t.tag # "Ok"
    THEN Parsed(t.tag, None, t.self)
    ELSE IF ~IsSome(StatusFromStr(t.token))
    THEN Parsed("Err", None, t.self)
    ELSE LET l == discard_line(t.self, d) IN
         IF l.tag # "Ok"
         THEN Parsed(l.tag, None, l.self)
         ELSE Parsed("Ok", Some(Item("Status", Unwrap(StatusFromStr(t.token)), << >>, << >>)),
                     [l.self EXCEPT !.state = "ExpectHeader"])

\* parse_body that hands over whatever part of the body has arrived.
parse_body_Partial(self, d) ==
    IF self.pos > Len(d)
    THEN Parsed("Panic", None, self)
    ELSE Parsed("Ok", Some(Item("Body", 0, << >>, SliceFrom(d, self.pos))),
                [self EXCEPT !.pos = Len(d), !.state = "Done"])

\* Parser::parse_body
parse_body(self, d) ==
    IF self.pos > Len(d)
    THEN Parsed("Panic", None, self)
    ELSE IF Len(SliceFrom(d, self.pos)) >= self.content_length
    THEN Parsed("Ok",
                Some(Item("Body", 0, << >>,
                          SubSeq(SliceFrom(d, self.pos), 1, self.content_length))),
                [self EXCEPT !.pos = self.pos + self.content_length,
                             !.state = "Done"])
    ELSE Parsed("Ok", None, self)

\* Parser::handle_special_header: the new content_length, None on an error
handle_special_header(self, h) ==
    IF eq_ignore_ascii_case(h.name, << "c", "o", "n", "t", "e", "n", "t", "-",
                                       "l", "e", "n", "g", "t", "h" >>)
    THEN parse_uint(h.value)
    ELSE Some(self.content_length)

\* Parser::parse_header_field
parse_header_field(self, d) ==
    LET l == get_next_line(self, d) IN
    IF l.tag # "Ok"
    THEN Parsed(l.tag, None, l.self)
    ELSE IF l.line = << >>
    THEN parse_body([l.self EXCEPT
                       !.state = IF l.self.content_length > 0
                                 THEN "ExpectBody" ELSE "Done",
                       !.header_length = l.self.pos], d)
    ELSE LET h == HeaderTryFrom(l.line) IN
         IF ~IsSome(h)
         THEN Parsed("Err", None, l.self)
         ELSE IF ~IsSome(handle_special_header(l.self, Unwrap(h)))
         THEN Parsed("Err", None, l.self)
         ELSE Parsed("Ok",
                     Some(Item("Header", 0, Unwrap(h).name, Unwrap(h).value)),
                     [l.self EXCEPT !.content_length =
                         Unwrap(handle_special_header(l.self, Unwrap(h)))])

\* parse_next that starts over with the next response once it is Done.
parse_next_Reparse(self, d) ==
    CASE self.state = "ExpectProtocol" -> parse_protocol(self, d)
      [] self.state = "ExpectStatus" -> parse_status(self, d)
      [] self.state = "ExpectHeader" -> parse_header_field(self, d)
      [] self.state = "ExpectBody" -> parse_body(self, d)
      [] self.state = "Done" -> parse_protocol(self, d)

\* Parser::parse_next
parse_next(self, d) ==
    CASE self.state = "ExpectProtocol" -> parse_protocol(self, d)
      [] self.state = "ExpectStatus" -> parse_status(self, d)
      [] self.state = "ExpectHeader" -> parse_header_field(self, d)
      [] self.state = "ExpectBody" -> parse_body(self, d)
      [] self.state = "Done" -> Parsed("Ok", None, self)

\* Parser::is_done
is_done(self) == self.state = "Done"

\* Parser::missing_bytes
missing_bytes(self) ==
    IF self.header_length > 0
    THEN Some(self.header_length + self.content_length - self.pos)
    ELSE None

\* parsed_bytes that leaves the body out.
parsed_bytes_HeaderOnly(self) == self.header_length

\* Parser::parsed_bytes
parsed_bytes(self) == self.pos

\* ============================================== receive path, byte by byte
\* i32::to_string for n >= 0
RECURSIVE to_string(_)
to_string(n) ==
    IF n < 10 THEN << Digits[n + 1] >> ELSE to_string(n \div 10) \o << Digits[(n % 10) + 1] >>

\* What a server writes for a response: status line, CSeq header, a
\* Content-Length header announcing `len` bytes if len > 0, the empty line,
\* and the body bytes it has sent so far.
CRLF == << "\r", "\n" >>
ResponseText(code, reason, n, len, body) ==
    << "R", "T", "S", "P", "/", "1", ".", "0", " " >> \o to_string(code) \o << " " >>
    \o reason \o CRLF
    \o << "C", "S", "e", "q", ":", " " >> \o to_string(n) \o CRLF
    \o (IF len > 0
        THEN << "C", "o", "n", "t", "e", "n", "t", "-", "L", "e", "n", "g", "t", "h",
                ":", " " >> \o to_string(len) \o CRLF
        ELSE << >>)
    \o CRLF \o body

TextOK == << "O", "K" >>
TextTest == << "t", "e", "s", "t" >>
Ok1 == ResponseText(200, TextOK, 1, 0, << >>)
Ok1Body == ResponseText(200, TextOK, 1, 4, TextTest)
NotFound2 == ResponseText(404, << "N", "o", "n", "e" >>, 2, 0, << >>)
\* a response that announces more than the 32 KiB the channel accepts
Huge1 == ResponseText(200, TextOK, 1, 40000, TextTest)
\* not RTSP
Junk == << "H", "T", "T", "P", "/", "1", ".", "1", " ", "2", "0", "0" >> \o CRLF \o CRLF

\* &str of a body, as the reply sink shows it.
BodyStr(b) ==
    IF b = << >> THEN "" ELSE IF b = TextTest THEN "test" ELSE "other"

\* The WWW-Authenticate value as Authorizer::new takes it apart.
ChallengeOf(v) ==
    LET p == splitn2(v, " ")
        its == IF Len(p) = 2 THEN split(p[2], ",") ELSE << >>
        key(i) == trim(splitn2(its[i], "=")[1])
    IN Challenge(IF p[1] = << "B", "a", "s", "i", "c" >> THEN "Basic"
                 ELSE IF p[1] = << "D", "i", "g", "e", "s", "t" >> THEN "Digest"
                 ELSE "Bearer",
                 Len(p) = 2,
                 \A i \in DOMAIN its : Len(splitn2(its[i], "=")) = 2,
                 \E i \in DOMAIN its : key(i) = << "r", "e", "a", "l", "m" >>,
                 \E i \in DOMAIN its : key(i) = << "n", "o", "n", "c", "e" >>)

\* read_rtsp_packet, the loop over parse_next: what it has collected when
\* the parser yields nothing more (Ok), or the error or panic that ends it.
RECURSIVE collect(_, _, _)
collect(parser, d, acc) ==
    With(parse_next(parser, d), LAMBDA r :
    IF r.tag # "Ok"
    THEN [acc EXCEPT !.tag = r.tag, !.parser = r.self]
    ELSE IF ~IsSome(r.item)
    THEN [acc EXCEPT !.tag = "Ok", !.parser = r.self]
    ELSE LET it == Unwrap(r.item) IN
         IF it.kind = "Header"
         THEN IF ~IsSome(acc.cseq)
                 /\ eq_ignore_ascii_case(it.name, << "c", "s", "e", "q" >>)
              THEN IF ~IsSome(parse_uint(it.value))
                   THEN [acc EXCEPT !.tag = "Err", !.parser = r.self]
                   ELSE collect(r.self, d, [acc EXCEPT !.cseq = parse_uint(it.value)])
              ELSE IF ~IsSome(acc.www)
                      /\ eq_ignore_ascii_case(it.name,
                             << "w", "w", "w", "-", "a", "u", "t", "h", "e", "n",
                                "t", "i", "c", "a", "t", "e" >>)
              THEN collect(r.self, d, [acc EXCEPT !.www = Some(it.value)])
              ELSE collect(r.self, d, acc)
         ELSE IF it.kind = "Status"
         THEN collect(r.self, d, [acc EXCEPT !.status = Some(it.code)])
         ELSE IF it.kind = "Body"
         THEN collect(r.self, d, [acc EXCEPT !.body = Some(it.value)])
         ELSE collect(r.self, d, acc))

Collected(d) ==
    collect(ParserNew, d,
            [tag |-> "Ok", parser |-> ParserNew, cseq |-> None, www |-> None,
             status |-> None, body |-> None])

\* read_packet on the unread bytes d of buffer_rx: Ok(n) with the channel as
\* the dispatch leaves it, Err(IncompleteResponse), another Err, or a panic.
read_packet(ch, usr, d) ==
    IF d = << >>
    THEN [result |-> "Ok", n |-> 0, ch |-> ch]
    ELSE IF d[1] = "$"
    THEN [result |-> "Ok", n |-> read_rtp_or_rtcp_packet, ch |-> ch]
    ELSE With(Collected(d), LAMBDA c :
    IF c.tag # "Ok"
    THEN [result |-> c.tag, n |-> 0, ch |-> ch]
    ELSE IF ~is_done(c.parser)
    THEN IF ~IsSome(missing_bytes(c.parser))
         THEN [result |-> IF Len(d) > MaxHeader THEN "Err" ELSE "Incomplete",
               n |-> 0, ch |-> ch]
         ELSE [result |-> IF Unwrap(missing_bytes(c.parser)) > MaxResponse
                          THEN "Err" ELSE "Incomplete",
               n |-> 0, ch |-> ch]
    ELSE \* a parser that is done has yielded a status and a body
         LET f == Resp(c.cseq, Unwrap(c.status),
                       IF IsSome(c.www) THEN Some(ChallengeOf(Unwrap(c.www))) ELSE None,
                       BodyStr(Unwrap(c.body)))
             r == read_rtsp_packet(ch, usr, f)
         IN [result |-> r.result, n |-> parsed_bytes(c.parser), ch |-> r.ch])

\* handle_data on the unread bytes d: the channel and the unread bytes it
\* leaves, the byte counts passed to notify_read, and how the loop ended.
RECURSIVE handle_data(_, _, _, _)
handle_data(ch, usr, d, ns) ==
    With(read_packet(ch, usr, d), LAMBDA r :
    IF r.result = "Ok"
    THEN IF r.n = 0
         THEN [tag |-> "Break", ch |-> r.ch, unread |-> d, consumed |-> ns]
         ELSE handle_data(r.ch, usr, SliceFrom(d, r.n), Append(ns, r.n))
    ELSE IF r.result = "Incomplete"
    THEN [tag |-> "Incomplete", ch |-> r.ch, unread |-> d, consumed |-> ns]
    ELSE IF r.result = "Err"
    THEN [tag |-> "Shutdown", ch |-> shutdown_(r.ch), unread |-> d, consumed |-> ns]
    ELSE [tag |-> "Panic", ch |-> r.ch, unread |-> d, consumed |-> ns])

\* What the server may have sent when the channel starts to read.
Streams == {Ok1, Ok1Body, Ok1 \o NotFound2, Ok1Body \o NotFound2, Huge1, Junk}

\* The channel with a server that sends one of Streams, cut into reads at
\* arbitrary byte boundaries.
RxInit ==
    /\ ChannelNew
    /\ ~user
    /\ NoReorderQueue
    /\ NoBuffer
    /\ NoParser
    /\ NoPacket
    /\ stream \in Streams
    /\ buffer_rx = << >>
    /\ rx_ret = [seen |-> << >>, consumed |-> << >>, tag |-> "none"]

\* select!: stream.read returns the next n > 0 bytes; notify_write(n), then
\* handle_data until its loop breaks.
RxRead(n) ==
    /\ pc = "select"
    /\ n <= MaxRead
    /\ \E r \in {handle_data(Self, user, buffer_rx \o SubSeq(stream, 1, n), << >>)} :
          /\ Len(r.ch.cmd_retry) + r.ch.cseq - 1 <= MaxCSeq
          /\ stream' = SliceFrom(stream, n)
          /\ buffer_rx' = r.unread
          /\ rx_ret' = [seen |-> buffer_rx \o SubSeq(stream, 1, n),
                        consumed |-> r.consumed, tag |-> r.tag]
          /\ cmd_pending' = r.ch.cmd_pending
          /\ cmd_retry' = r.ch.cmd_retry
          /\ authorizer' = r.ch.authorizer
          /\ shutdown' = r.ch.shutdown
          /\ IF r.tag = "Panic"
             THEN /\ pc' = "panicked"
                  /\ exitCause' = "panic"
                  /\ sink' = DropChannel(r.ch.sink)
             ELSE /\ pc' = "top"
                  /\ sink' = r.ch.sink
                  /\ UNCHANGED exitCause
    /\ UNCHANGED << user, cseq, buffer_tx, wire, rx_frames, rx_frame, rx_media, intake >>
    /\ UNCHANGED << queueVars, bufVars, parserVars, pktVars >>

\* The caller of command c drops the oneshot receiver before a result came.
DropReceiver(c) ==
    /\ sink[c] = SinkWaiting
    /\ sink' = [sink EXCEPT ![c] = SinkClosed]
    /\ UNCHANGED << pc, exitCause, user, cseq, buffer_tx, wire, rx_frames, rx_frame,
                    rx_media, intake, cmd_pending, cmd_retry, authorizer, shutdown >>
    /\ UNCHANGED nonChanVars

RxNext ==
    \/ \E c \in CmdIds : Submit(c)
    \/ \E c \in CmdIds : DropReceiver(c)
    \/ RecvCommand
    \/ FlushOk
    \/ LoopExit
    \/ \E n \in 1..Len(stream) : RxRead(n)

RxSpec == RxInit /\ [][RxNext]_vars

\* ------------------------------------------------- the parser on its own
\* A caller that owns a Parser and a growing text: the text sent so far is
\* buffer_rx, the rest is still in stream.
PInit ==
    /\ ChannelNew
    /\ ~user
    /\ NoReorderQueue
    /\ NoBuffer
    /\ stream \in Streams
    /\ buffer_rx = << >>
    /\ rx_ret = [seen |-> << >>, consumed |-> << >>, tag |-> "none"]
    /\ state = ParserNew.state
    /\ pos = ParserNew.pos
    /\ header_length = ParserNew.header_length
    /\ content_length = ParserNew.content_length
    /\ items = << >>
    /\ p_ret = [tag |-> "none", item |-> None]
    /\ NoPacket

\* n more bytes of the text arrive.
Extend(n) ==
    /\ p_ret.tag # "Panic"
    /\ n <= MaxRead
    /\ buffer_rx' = buffer_rx \o SubSeq(stream, 1, n)
    /\ stream' = SliceFrom(stream, n)
    /\ UNCHANGED << rx_ret, chanVars, queueVars, bufVars, parserVars, pktVars >>

\* parser.parse_next(text)
ParseNext ==
    /\ p_ret.tag # "Panic"
    /\ \E r \in {parse_next(PSelf, buffer_rx)} :
         /\ state' = r.self.state
         /\ pos' = r.self.pos
         /\ header_length' = r.self.header_length
         /\ content_length' = r.self.content_length
         /\ items' = IF IsSome(r.item) THEN Append(items, Unwrap(r.item).kind) ELSE items
         /\ p_ret' = [tag |-> r.tag, item |-> r.item]
    /\ UNCHANGED << chanVars, queueVars, bufVars, rxVars, pktVars >>

PNext ==
    \/ \E n \in 1..Len(stream) : Extend(n)
    \/ ParseNext

ParserSpec == PInit /\ [][PNext]_vars

\* ================================= transmit path with the space of buffer_tx
\* The Buffer variables are Channel.buffer_tx; its capacity and the size of
\* the slice handle_command asks for are scaled down (TxCapacity for
\* 512 * 1024, TxSlice for 4096). A serialised request takes 1..TxSlice bytes.
\* What handle_command and handle_retry_cmds work on: the channel's fields,
\* buffer_tx, and whether an unwrap() has panicked.
TxSelf == [tag |-> "Ok", ch |-> Self, buf |-> BSelf]

\* Channel::handle_command for a request of n bytes:
\* buffer_tx.get_write_slice(4096).unwrap(), cmd.write, notify_write(n).
handle_command_tx(t, cmd, n) ==
    With(get_write_slice(t.buf, TxSlice), LAMBDA w :
         IF w.tag = "Err"
         THEN [tag |-> "Panic", ch |-> next_cseq(t.ch).ch, buf |-> w.self]
         ELSE [tag |-> "Ok", ch |-> handle_command(t.ch, cmd),
               buf |-> notify_write(w.self, n)])

\* Channel::handle_retry_cmds; lens are the sizes of the requests it writes.
RECURSIVE handle_retry_cmds_tx(_, _)
handle_retry_cmds_tx(t, lens) ==
    IF t.tag # "Ok" \/ t.ch.cmd_retry = << >>
    THEN t
    ELSE handle_retry_cmds_tx(
             handle_command_tx([t EXCEPT !.ch.cmd_retry = pop_front(t.ch.cmd_retry).rest],
                               pop_front(t.ch.cmd_retry).val, Head(lens)),
             Tail(lens))

\* A flush with write instead of write_all: the last byte stays behind.
send_outstanding_data_Partial(buf) ==
    IF get_read_slice(buf) = << >>
    THEN buf
    ELSE notify_read(buf, Len(get_read_slice(buf)) - 1)

\* Channel::send_outstanding_data, write_all succeeding: notify_read of all
\* that get_read_slice holds.
send_outstanding_data(buf) ==
    IF get_read_slice(buf) = << >>
    THEN buf
    ELSE notify_read(buf, Len(get_read_slice(buf)))

\* handle_data over the whole responses fs of one read.
RECURSIVE handle_frames(_, _, _)
handle_frames(ch, usr, fs) ==
    IF fs = << >>
    THEN [tag |-> "Break", ch |-> ch]
    ELSE With(read_rtsp_packet(ch, usr, Head(fs)), LAMBDA r :
              IF r.result = "Ok"
              THEN handle_frames(r.ch, usr, Tail(fs))
              ELSE IF r.result = "Err"
              THEN [tag |-> "Shutdown", ch |-> shutdown_(r.ch)]
              ELSE [tag |-> "Panic", ch |-> r.ch])

\* What the server answers while `pending` is the pending map: a 401 with a
\* usable challenge to a pending request, or bytes that are no response.
TxFrames(pending) ==
    {Resp(Some(k), 401, Some(ch), "") : k \in DOMAIN pending, ch \in {BasicOk, DigestOk}}
    \cup {Garbage}

\* Channel::new(..).user(..).pass(..) as in main, buffer_tx = Buffer::new.
TxInit ==
    /\ ChannelNew
    /\ user
    /\ NoReorderQueue
    /\ NoReceive
    /\ NoParser
    /\ NoPacket
    /\ data = BufferNew(TxCapacity).data
    /\ max_capacity = BufferNew(TxCapacity).max_capacity
    /\ read_pos = BufferNew(TxCapacity).read_pos
    /\ write_pos = BufferNew(TxCapacity).write_pos
    /\ slice_len = 0
    /\ b_ret = [op |-> "none", n |-> 0, tag |-> "Ok"]
    /\ written = 0
    /\ consumed = 0

\* What a handler's result t does to the channel and to buffer_tx; a panic
\* ends the task.
TxApply(t) ==
    /\ cseq' = t.ch.cseq
    /\ cmd_pending' = t.ch.cmd_pending
    /\ cmd_retry' = t.ch.cmd_retry
    /\ authorizer' = t.ch.authorizer
    /\ max_capacity' = t.buf.max_capacity
    /\ IF t.tag = "Panic"
       THEN /\ BApply(t.buf)
            /\ buffer_tx' = t.ch.buffer_tx
            /\ b_ret' = [op |-> "get_write_slice", n |-> TxSlice, tag |-> "Err"]
            /\ pc' = "panicked"
            /\ exitCause' = "panic"
            /\ sink' = DropChannel(sink)
       ELSE /\ UNCHANGED << b_ret, exitCause, sink >>

\* select!: cmd_rx.recv() yields a command; its request takes n bytes.
TxRecvCommand(n) ==
    /\ pc = "select"
    /\ intake # << >>
    /\ \E t \in {handle_command_tx(TxSelf, Head(intake), n)} :
          /\ TxApply(t)
          /\ t.tag = "Ok" =>
                /\ BApply(t.buf)
                /\ buffer_tx' = t.ch.buffer_tx
                /\ pc' = "top"
    /\ intake' = Tail(intake)
    /\ UNCHANGED << user, wire, rx_frames, rx_frame, rx_media, shutdown >>
    /\ UNCHANGED << slice_len, written, consumed >>
    /\ UNCHANGED << queueVars, rxVars, parserVars, pktVars >>

\* poll_until_shutdown: handle_retry_cmds, then send_outstanding_data succeeds.
TxFlush(lens) ==
    /\ pc = "top"
    /\ ~shutdown
    /\ \E t \in {handle_retry_cmds_tx(TxSelf, lens)} :
          /\ TxApply(t)
          /\ t.tag = "Ok" =>
                /\ BApply(send_outstanding_data(t.buf))
                /\ wire' = wire \o t.ch.buffer_tx
                /\ buffer_tx' = << >>
                /\ pc' = "select"
          /\ t.tag = "Panic" => wire' = wire
    /\ UNCHANGED << user, rx_frames, rx_frame, rx_media, intake, shutdown >>
    /\ UNCHANGED << slice_len, written, consumed >>
    /\ UNCHANGED << queueVars, rxVars, parserVars, pktVars >>

\* select!: stream.read returns the whole responses fs; handle_data.
TxRead(fs) ==
    /\ pc = "select"
    /\ \E r \in {handle_frames(Self, user, fs)} :
          /\ r.ch.cseq + Len(r.ch.cmd_retry) - 1 <= 2 * NumCmds
          /\ cmd_pending' = r.ch.cmd_pending
          /\ cmd_retry' = r.ch.cmd_retry
          /\ authorizer' = r.ch.authorizer
          /\ shutdown' = r.ch.shutdown
          /\ IF r.tag = "Panic"
             THEN /\ pc' = "panicked"
                  /\ exitCause' = "panic"
                  /\ sink' = DropChannel(r.ch.sink)
             ELSE /\ pc' = "top"
                  /\ sink' = r.ch.sink
                  /\ UNCHANGED exitCause
          /\ rx_ret' = [seen |-> fs, consumed |-> << >>, tag |-> r.tag]
    /\ UNCHANGED << user, cseq, buffer_tx, wire, rx_frames, rx_frame, rx_media, intake >>
    /\ UNCHANGED << stream, buffer_rx >>
    /\ UNCHANGED << queueVars, bufVars, parserVars, pktVars >>

TxNext ==
    \/ \E c \in CmdIds : Submit(c)
    \/ \E n \in 1..TxSlice : TxRecvCommand(n)
    \/ \E lens \in [1..Len(cmd_retry) -> 1..TxSlice] : TxFlush(lens)
    \/ \E k \in 1..NumCmds : \E fs \in [1..k -> TxFrames(cmd_pending)] : TxRead(fs)
    \/ LoopExit

TxSpec == TxInit /\ [][TxNext]_vars

\* ================================================ one Authorizer on its own
\* An Authorizer of any kind, written to MaxWrites times; wire holds the
\* requests it serialised, in order, and cseq numbers them.
AInit ==
    /\ pc = "top"
    /\ exitCause = "none"
    /\ user = TRUE
    /\ cseq = 1
    /\ buffer_tx = << >>
    /\ wire = << >>
    /\ rx_frames = 0
    /\ rx_frame = NoFrame
    /\ rx_media = FALSE
    /\ intake = << >>
    /\ cmd_pending = << >>
    /\ cmd_retry = << >>
    /\ authorizer \in {AuthNone, AuthBasic, DigestNew}
    /\ shutdown = FALSE
    /\ sink = [c \in CmdIds |-> SinkIdle]
    /\ NoReorderQueue
    /\ NoBuffer
    /\ NoReceive
    /\ NoParser
    /\ NoPacket

\* Authorizer::write for a request of command c.
AuthWrite(c) ==
    /\ Len(wire) < MaxWrites
    /\ \E w \in {AuthorizerWrite(authorizer, c, cseq,
                                 header(RequestBuilderNew, "CSeq", cseq))} :
          /\ wire' = Append(wire, w.req)
          /\ authorizer' = w.auth
    /\ cseq' = cseq + 1
    /\ UNCHANGED << pc, exitCause, user, buffer_tx, rx_frames, rx_frame, rx_media,
                    intake, cmd_pending, cmd_retry, shutdown, sink >>
    /\ UNCHANGED nonChanVars

ANext == \E c \in CmdIds : AuthWrite(c)

AuthSpec == AInit /\ [][ANext]_vars

\* ================================================================ rtp packet
\* src/src/rtp/packet.rs. A packet is its buffer, a sequence of bytes; byte i
\* of the source's buf is b[i + 1].
\* Packet::csrc_count: buf[0] & 0x0F
csrc_count(b) == b[1] % 16
\* Packet::padding: (buf[0] >> 5) & 0x01 == 1
padding(b) == (b[1] \div 32) % 2 = 1
\* Packet::sequence_number: u16::from_be_bytes([buf[2], buf[3]])
sequence_number(b) == b[3] * 256 + b[4]
\* Packet::data_offset; csrc_count() * 4 is a u8 product (at most 60).
data_offset(b) == CSRC_OFFSET + ((csrc_count(b) * 4) % 256)

\* Packet::new: Ok(packet) or Err(BufferTooShort).
PacketNew(b) ==
    IF Len(b) < 12 \/ Len(b) < data_offset(b) THEN "Err" ELSE "Ok"

\* Packet::data on an accepted packet: the slice, or a panic (the subtraction
\* buf.len() - padding_len overflows, or the slice's start lies after its end;
\* a build without overflow checks wraps the difference and the slice's end
\* is out of range).
packet_data(b) ==
    IF padding(b)
    THEN IF b[Len(b)] > Len(b) \/ data_offset(b) > Len(b) - b[Len(b)]
         THEN [tag |-> "Panic", val |-> << >>]
         ELSE [tag |-> "Ok", val |-> SubSeq(b, data_offset(b) + 1, Len(b) - b[Len(b)])]
    ELSE [tag |-> "Ok", val |-> SubSeq(b, data_offset(b) + 1, Len(b))]

\* The buffers tried: version 2, with and without the padding flag, 0..2 CSRC
\* entries, 11..MaxPacketLen bytes, the last byte a padding length.
FirstBytes == {128 + 32 * p + cc : p \in {0, 1}, cc \in {0, 1, 2}}
LastBytes == {0, 1, 2, 255}
PacketBufs ==
    {[i \in 1..n |-> IF i = 1 THEN f ELSE IF i = n THEN l ELSE 0] :
        n \in 11..MaxPacketLen, f \in FirstBytes, l \in LastBytes}

PkInit ==
    /\ ChannelNew
    /\ ~user
    /\ NoReorderQueue
    /\ NoBuffer
    /\ NoReceive
    /\ NoParser
    /\ packet_buf \in PacketBufs
    /\ pk_ret = [op |-> "none", tag |-> "Ok", val |-> << >>]

\* Packet::new(buf)
NewPacket ==
    /\ pk_ret.op = "none"
    /\ pk_ret' = [op |-> "new", tag |-> PacketNew(packet_buf), val |-> << >>]
    /\ UNCHANGED << packet_buf, chanVars, queueVars, bufVars, rxVars, parserVars >>

\* packet.data() on a packet Packet::new returned.
PacketData ==
    /\ pk_ret.op = "new"
    /\ pk_ret.tag = "Ok"
    /\ \E r \in {packet_data(packet_buf)} :
          pk_ret' = [op |-> "data", tag |-> r.tag, val |-> r.val]
    /\ UNCHANGED << packet_buf, chanVars, queueVars, bufVars, rxVars, parserVars >>

PkNext == NewPacket \/ PacketData

PacketSpec == PkInit /\ [][PkNext]_vars

\* ================================================================ rtp reader
\* src/src/rtp/reader.rs: PacketReader with its reorder queue. The queue
\* variables are the reader's fields (queue = reorder_queue, max_len =
\* max_reorder_queue_len, last_read_sn), stream holds the framed payloads the
\* reader has not read yet, offered the sequence numbers passed to
\* push_to_reorder_queue_or_return, output those read_packet returned.
\* GetPacketType for BufPacket: the second byte in 200..=207 is RTCP.
get_packet_type(b) == IF b[2] >= 200 /\ b[2] <= 207 THEN "RTCP" ELSE "RTP"

\* reader.rs Packet::new: reads buf[0] .. buf[11]; a shorter buffer panics.
ReaderPacketNew(b) ==
    IF Len(b) < 12
    THEN [tag |-> "Panic", sequence_number |-> 0]
    ELSE [tag |-> "Ok", sequence_number |-> b[3] * 256 + b[4]]

\* PacketReader::push_to_reorder_queue_or_return
push_to_reorder_queue_or_return(self, sn, checks) ==
    IF self.last_read_sn # 0 /\ checks /\ Overflows(self.last_read_sn)
    THEN [tag |-> "Panic", val |-> None, self |-> self]
    ELSE IF self.last_read_sn = 0 \/ sn = Add1(self.last_read_sn)
    THEN [tag |-> "Ok", val |-> Some(sn), self |-> [self EXCEPT !.last_read_sn = sn]]
    ELSE IF sn < self.last_read_sn
    THEN [tag |-> "Ok", val |-> None, self |-> self]
    ELSE [tag |-> "Ok", val |-> None,
          self |-> [self EXCEPT !.queue = heap_push(self.queue, sn)]]

\* PacketReader::parse_rtp; `offered` is what it passed to the reorder step.
parse_rtp(self, b, checks) ==
    With(ReaderPacketNew(b), LAMBDA p :
         IF p.tag = "Panic"
         THEN [tag |-> "Panic", val |-> None, self |-> self, offered |-> None]
         ELSE [r \in {"tag", "val", "self", "offered"} |->
                  IF r = "offered"
                  THEN Some(p.sequence_number)
                  ELSE push_to_reorder_queue_or_return(self, p.sequence_number, checks)[r]])

\* PacketReader::pop_reorder_queue
pop_reorder_queue(self, checks) ==
    IF self.queue = << >>
    THEN [tag |-> "Ok", val |-> None, self |-> self]
    ELSE IF checks /\ Overflows(self.last_read_sn)
    THEN [tag |-> "Panic", val |-> None, self |-> self]
    ELSE IF \/ Head(self.queue) = Add1(self.last_read_sn)
            \/ Len(self.queue) >= self.max_len
    THEN [tag |-> "Ok", val |-> Some(Head(self.queue)),
          self |-> [self EXCEPT !.last_read_sn = Head(self.queue),
                                !.queue = Tail(self.queue)]]
    ELSE [tag |-> "Ok", val |-> None, self |-> self]

\* PacketReader::parse_buf_packet: both arms call parse_rtp.
parse_buf_packet(self, b, checks) ==
    IF get_packet_type(b) = "RTP"
    THEN parse_rtp(self, b, checks)
    ELSE parse_rtp(self, b, checks)

\* Framed payloads a server sends: RTP packets numbered 1..3, an RTCP sender
\* report (28 bytes, length field 6) and an RTCP receiver report without
\* report blocks (8 bytes, length field 1).
Bytes(n, b1, b2, b3, b4) ==
    [i \in 1..n |-> IF i = 1 THEN b1 ELSE IF i = 2 THEN b2 ELSE IF i = 3 THEN b3
                    ELSE IF i = 4 THEN b4 ELSE 0]
RtpPacket(sn) == Bytes(12, 128, 96, sn \div 256, sn % 256)
RtcpSenderReport == Bytes(28, 128, 200, 0, 6)
RtcpReceiverReport == Bytes(8, 128, 201, 0, 1)
Payloads == {RtpPacket(sn) : sn \in 1..3} \cup {RtcpSenderReport, RtcpReceiverReport}

\* PacketReader::new(stream, max_reorder_queue_len)
RdInit ==
    /\ ChannelNew
    /\ ~user
    /\ NoBuffer
    /\ NoParser
    /\ NoPacket
    /\ \E n \in 0..MaxStream : stream \in [1..n -> Payloads]
    /\ buffer_rx = << >>
    /\ rx_ret = [seen |-> << >>, consumed |-> << >>, tag |-> "none"]
    /\ queue = << >>
    /\ max_len \in 1..MaxLen
    /\ last_read_sn = 0
    /\ overflow_checks \in BOOLEAN
    /\ q_pc = "ready"
    /\ q_ret = [op |-> "none", val |-> None]
    /\ offered = << >>
    /\ output = << >>

\* read_packet, one turn of its loop: pop_reorder_queue; if that yields
\* nothing, read_buf_packet and parse_buf_packet.
ReadPacket ==
    /\ q_pc = "ready"
    /\ \E p \in {pop_reorder_queue(QSelf, overflow_checks)} :
          IF p.tag = "Panic" \/ IsSome(p.val)
          THEN /\ QApply("pop", p)
               /\ UNCHANGED << stream, offered, pktVars >>
          ELSE /\ stream # << >>
               /\ \E r \in {parse_buf_packet(p.self, Head(stream), overflow_checks)} :
                     /\ QApply("read", r)
                     /\ offered' = offered \o r.offered
               /\ stream' = Tail(stream)
               /\ packet_buf' = Head(stream)
               /\ pk_ret' = [op |-> "get_packet_type", tag |-> "Ok",
                             val |-> << get_packet_type(Head(stream)) >>]
    /\ UNCHANGED << max_len, overflow_checks, buffer_rx, rx_ret >>
    /\ UNCHANGED << chanVars, bufVars, parserVars >>

RdNext == ReadPacket

ReaderSpec == RdInit /\ [][RdNext]_vars

\* ----------------------------------------------------------------- claims
\* Every request serialised so far, in order of serialisation.
Serialised == wire \o buffer_tx
Transmissions(c) == Cardinality({i \in DOMAIN Serialised : Serialised[i].cmd = c})
Cancelled == SinkErr("Cancelled")

\* A step of handle_data's loop (callers' sends leave pc alone but change intake).
IsHandlePacket == pc = "handle_data" /\ intake' = intake
\* A step of the loop head that runs handle_retry_cmds and the flush.
IsFlush == pc = "top" /\ ~shutdown /\ pc' # "top"

\* C1: every submitted command gets a result on its sink (its response's
\* outcome, or Cancelled at shutdown); no sink is ever dropped without one.
C1_NoCommandLost == \A c \in CmdIds : sink[c] # SinkDropped

\* C2: when the task ends on EOF or on a read or write I/O error, every
\* command that was in the pending map at that moment has received Cancelled.
C2_TransportErrorCancelsPending ==
    exitCause \in {"eof", "read_err", "write_err"} =>
        \A c \in Range(cmd_pending) : sink[c] = Cancelled

\* C3: a response that is unparseable, has no (valid) CSeq header or carries
\* a CSeq with no pending entry sets the shutdown flag and cancels every
\* pending command; handle_data stops without consuming it, and from then on
\* nothing is dispatched or serialised: the loop's next step is its exit.
FatalFrame(f, pending) ==
    \/ f.kind \in {"garbage", "badcseq"}
    \/ f.kind = "resp" /\ ~IsSome(f.cseq)
    \/ f.kind = "resp" /\ IsSome(f.cseq) /\ Unwrap(f.cseq) \notin DOMAIN pending
C3_Step ==
    /\ (IsHandlePacket /\ FatalFrame(rx_frame', cmd_pending)) =>
          /\ shutdown'
          /\ cmd_pending' = << >>
          /\ \A c \in Range(cmd_pending) : sink'[c] = Cancelled
          /\ rx_frames' = rx_frames
          /\ pc' = "top"
    /\ shutdown =>
          /\ pc \in {"top", "terminated"}
          /\ pc' \in {"top", "terminated"}
          /\ wire' = wire /\ buffer_tx' = buffer_tx /\ cseq' = cseq
          /\ cmd_pending' = cmd_pending /\ cmd_retry' = cmd_retry
          /\ \A c \in CmdIds : sink'[c].res \in {sink[c].res, "Waiting", "Dropped"}
C3_FatalResponseShutsDown == [][C3_Step]_vars
\* the first of two responses of one read was fatal with a command pending
C3_Witness ==
    /\ shutdown /\ rx_frames = 2
    /\ rx_frame.kind = "resp" /\ IsSome(rx_frame.cseq)
    /\ \E c \in CmdIds : sink[c] = Cancelled

\* C4: a command in the retry queue when shutdown begins receives Cancelled,
\* and when the task has terminated cmd_pending and cmd_retry are empty.
C4_RetryCancelledOnShutdown ==
    shutdown =>
        /\ \A c \in Range(cmd_retry) : sink[c] = Cancelled
        /\ pc = "terminated" => (cmd_pending = << >> /\ cmd_retry = << >>)

\* C5: the i-th request serialised (new command or retry) carries CSeq i.
C5_CSeqSequence ==
    /\ \A i \in DOMAIN Serialised : Serialised[i].cseq = i
    /\ cseq = Len(Serialised) + 1
C5_Witness ==
    /\ Len(Serialised) >= 3
    /\ \E c \in CmdIds : Transmissions(c) >= 2
    /\ \E c \in CmdIds : Transmissions(c) = 1

\* C6: a command is in at most one of intake queue, pending map and retry
\* queue, and at most once in each.
Occurrences(c) ==
    Cardinality({i \in DOMAIN intake : intake[i] = c})
    + Cardinality({k \in DOMAIN cmd_pending : cmd_pending[k] = c})
    + Cardinality({i \in DOMAIN cmd_retry : cmd_retry[i] = c})
C6_SingleOwner == \A c \in CmdIds : Occurrences(c) <= 1
C6_Witness ==
    /\ cmd_retry # << >>
    /\ cmd_pending # << >>
    /\ \A c \in CmdIds : Occurrences(c) = 1

\* C7: a response with CSeq k that has a pending entry changes the sink of
\* the command that was serialised with CSeq k (for 200 and other non-401
\* statuses it does change it) and the sink of no other command.
C7_Step ==
    \A k \in DOMAIN cmd_pending :
        (/\ IsHandlePacket
         /\ rx_frame'.kind = "resp" /\ rx_frame'.cseq = Some(k)
         /\ pc' # "panicked") =>
            /\ \E i \in DOMAIN Serialised : Serialised[i].cseq = k
            /\ \A i \in DOMAIN Serialised : Serialised[i].cseq = k =>
                  /\ \A d \in CmdIds \ {Serialised[i].cmd} : sink'[d] = sink[d]
                  /\ rx_frame'.status # 401 =>
                        /\ sink[Serialised[i].cmd] = SinkWaiting
                        /\ sink'[Serialised[i].cmd].res \in {"Ok", "Err"}
C7_MatchedByCSeq == [][C7_Step]_vars
\* the command sent second (CSeq 2) is answered while the first is pending
C7_Witness ==
    /\ Len(Serialised) >= 2
    /\ Serialised[1].cmd = 1 /\ Serialised[2].cmd = 2
    /\ 1 \in DOMAIN cmd_pending /\ cmd_pending[1] = 1
    /\ sink[2] = SinkOk("test") /\ sink[1] = SinkWaiting

\* C8: a 200 response with the CSeq k of a pending command removes the entry
\* and delivers Ok with the response's body to that command's sink, and the
\* channel keeps running (no shutdown, no exit).
C8_Step ==
    \A k \in DOMAIN cmd_pending :
        (/\ IsHandlePacket
         /\ rx_frame'.kind = "resp" /\ rx_frame'.cseq = Some(k)
         /\ rx_frame'.status = 200) =>
            /\ k \notin DOMAIN cmd_pending'
            /\ sink'[cmd_pending[k]] = SinkOk(rx_frame'.body)
            /\ ~shutdown'
            /\ pc' \in {"handle_data", "top"}
            /\ exitCause' = "none"
C8_OkDeliversBody == [][C8_Step]_vars
C8_Witness ==
    /\ \E c \in CmdIds : sink[c] = SinkOk("test")
    /\ rx_frame.status = 200 /\ rx_frame.body = "test"
    /\ ~shutdown /\ pc = "top"

\* C9: with credentials configured, a 401 for a pending CSeq k with a usable
\* challenge installs an authorizer of the challenge's scheme, takes k out of
\* the pending map and queues the command for retry without a result; the
\* next turn of the loop serialises every queued command with the next
\* unused CSeq and an Authorization header and makes it pending under that
\* CSeq; a 200 for the CSeq of a re-sent command delivers Ok to its sink.
Usable(ch) ==
    /\ ch.data
    /\ \/ ch.scheme = "Basic"
       \/ ch.scheme = "Digest" /\ ch.kv /\ ch.realm /\ ch.nonce
C9_Step ==
    /\ \A k \in DOMAIN cmd_pending :
          (/\ IsHandlePacket /\ user
           /\ rx_frame'.kind = "resp" /\ rx_frame'.cseq = Some(k)
           /\ rx_frame'.status = 401
           /\ IsSome(rx_frame'.www) /\ Usable(Unwrap(rx_frame'.www))) =>
              /\ authorizer'.kind = Unwrap(rx_frame'.www).scheme
              /\ k \notin DOMAIN cmd_pending'
              /\ cmd_retry' = Append(cmd_retry, cmd_pending[k])
              /\ sink'[cmd_pending[k]] = SinkWaiting
    /\ IsFlush =>
          /\ cmd_retry' = << >>
          /\ Len(Serialised') = Len(Serialised) + Len(cmd_retry)
          /\ \A i \in DOMAIN cmd_retry :
                LET r == Serialised'[Len(Serialised) + i] IN
                /\ r.cmd = cmd_retry[i]
                /\ \A j \in DOMAIN Serialised : Serialised[j].cseq < r.cseq
                /\ \A j \in 1..(i - 1) : Serialised'[Len(Serialised) + j].cseq < r.cseq
                /\ r.auth \in {"Basic", "Digest"}
                /\ r.auth = authorizer.kind
                /\ r.cseq \in DOMAIN cmd_pending'
                /\ cmd_pending'[r.cseq] = cmd_retry[i]
    /\ \A k \in DOMAIN cmd_pending :
          (/\ IsHandlePacket
           /\ rx_frame'.kind = "resp" /\ rx_frame'.cseq = Some(k)
           /\ rx_frame'.status = 200
           /\ Transmissions(cmd_pending[k]) >= 2) =>
              /\ \E i \in DOMAIN Serialised :
                    /\ Serialised[i].cmd = cmd_pending[k]
                    /\ Serialised[i].cseq = k
                    /\ Serialised[i].auth # "None"
              /\ sink'[cmd_pending[k]] = SinkOk(rx_frame'.body)
C9_ChallengeRetry == [][C9_Step]_vars
\* Scenario B: DESCRIBE, 401 with a Digest challenge, re-sent as CSeq 2, 200
C9_Witness ==
    /\ user
    /\ Len(wire) = 2
    /\ wire[1].cmd = 1 /\ wire[1].cseq = 1 /\ wire[1].auth = "None"
    /\ wire[2].cmd = 1 /\ wire[2].cseq = 2 /\ wire[2].auth = "Digest"
    /\ sink[1] = SinkOk("test")
    /\ cmd_pending = << >> /\ cmd_retry = << >>

\* C10: a command is transmitted at most twice: a second 401 fails it with
\* Unauthorized instead of queueing it for another retry.
C10_AtMostOneRetry == \A c \in CmdIds : Transmissions(c) <= 2

\* C11: a response with a status other than 200 and 401 for a pending CSeq k
\* fails the command stored under k with UnexpectedStatus(code) and no other
\* command; the channel does not shut down or exit, the other pending
\* entries, the retry queue, the authorizer and the CSeq counter stay as
\* they were.
C11_Step ==
    \A k \in DOMAIN cmd_pending :
        (/\ IsHandlePacket
         /\ rx_frame'.kind = "resp" /\ rx_frame'.cseq = Some(k)
         /\ rx_frame'.status \notin {200, 401}) =>
            /\ sink'[cmd_pending[k]] =
                   SinkVal("Err", "UnexpectedStatus", "", rx_frame'.status)
            /\ \A d \in CmdIds \ {cmd_pending[k]} : sink'[d] = sink[d]
            /\ ~shutdown' /\ exitCause' = "none"
            /\ pc' \in {"handle_data", "top"}
            /\ DOMAIN cmd_pending' = (DOMAIN cmd_pending) \ {k}
            /\ \A j \in DOMAIN cmd_pending' : cmd_pending'[j] = cmd_pending[j]
            /\ cmd_retry' = cmd_retry
            /\ authorizer' = authorizer
            /\ cseq' = cseq
C11_UnexpectedStatusIsLocal == [][C11_Step]_vars
\* a 404 failed one command while another stays pending and the loop goes on
C11_Witness ==
    /\ rx_frame.kind = "resp" /\ rx_frame.status = 404
    /\ \E c \in CmdIds : sink[c] = SinkVal("Err", "UnexpectedStatus", "", 404)
    /\ \E c \in Range(cmd_pending) : sink[c] = SinkWaiting
    /\ ~shutdown /\ pc \in {"handle_data", "top"}

\* C12: a 401 for a pending CSeq k whose challenge cannot be used (unknown
\* scheme, Digest without realm or nonce, malformed item) fails the command
\* stored under k with Unauthorized; the task keeps running and the
\* installed authorizer is unchanged.
C12_Step ==
    \A k \in DOMAIN cmd_pending :
        (/\ IsHandlePacket
         /\ rx_frame'.kind = "resp" /\ rx_frame'.cseq = Some(k)
         /\ rx_frame'.status = 401
         /\ IsSome(rx_frame'.www) /\ ~Usable(Unwrap(rx_frame'.www))) =>
            /\ sink'[cmd_pending[k]] = SinkErr("Unauthorized")
            /\ pc' \in {"handle_data", "top"}
            /\ ~shutdown'
            /\ authorizer' = authorizer
C12_UnusableChallengeUnauthorized == [][C12_Step]_vars

\* C13: when buffer_rx begins with a complete interleaved frame, handle_data
\* consumes exactly that frame and goes on with what follows it, so that a
\* response behind it is dispatched; the frame does not stay at the head of
\* the buffer.
C13_Step ==
    (IsHandlePacket /\ rx_frame'.kind = "interleaved") =>
        /\ rx_frames' = rx_frames - 1
        /\ ~rx_media'
        /\ pc' = IF rx_frames = 1 THEN "top" ELSE "handle_data"
C13_InterleavedConsumed == [][C13_Step]_vars

\* C14: backpressure. An RTP packet the channel has received and not yet
\* sent to the media output queue (by design: because the queue is full)
\* pauses reading: no new stream read is issued until it has been sent.
C14_Step == (pc = "select" /\ pc' = "handle_data") => ~rx_media
seq_diff(a, b) ==
    LET d == (a - b + U16) % U16 IN IF d >= 32768 THEN d - U16 ELSE d
\* A step that offers a packet, a step that polls.
IsOffer == Len(offered') = Len(offered) + 1
IsPoll == q_pc = "ready" /\ offered' = offered /\ q_ret'.op = "poll"
LastOutput == output[Len(output)]

\* C15: the packets the reorder queue returns, from offer or from poll, have
\* strictly increasing sequence numbers in order of return: the signed 16-bit
\* difference of each to the one returned before it is positive.
C15_OutputIncreasing ==
    \A i \in 1..(Len(output) - 1) : seq_diff(output[i + 1], output[i]) > 0

\* C16: when a contiguous run of sequence numbers has been offered, the
\* lowest first and the rest in any order, with no more packets than max_len,
\* and a poll has returned nothing, every packet of the run has been returned
\* exactly once, in ascending order.
IsRunFromLowest ==
    /\ offered # << >>
    /\ Cardinality(Range(offered)) = Len(offered)
    /\ Range(offered) = {(offered[1] + i - 1) % U16 : i \in 1..Len(offered)}
C16_RunInOrder ==
    (/\ IsRunFromLowest
     /\ Len(offered) <= max_len
     /\ q_ret = [op |-> "poll", val |-> None]) =>
        /\ q_pc = "ready"
        /\ output = [i \in 1..Len(offered) |-> (offered[1] + i - 1) % U16]

\* C17: poll returns the queued packet with the smallest sequence number and
\* sets last_read_sn to it exactly when that number is last_read_sn + 1
\* (modulo 2^16) or the queue holds max_len packets or more; otherwise it
\* returns nothing and leaves the queue and last_read_sn as they were.
C17_Step ==
    IsPoll =>
        /\ q_pc' = "ready"
        /\ IF /\ queue # << >>
              /\ \/ Head(queue) = Add1(last_read_sn)
                 \/ Len(queue) >= max_len
           THEN /\ \A i \in DOMAIN queue : Head(queue) <= queue[i]
                /\ q_ret'.val = Some(Head(queue))
                /\ last_read_sn' = Head(queue)
                /\ queue' = Tail(queue)
           ELSE /\ q_ret'.val = None
                /\ queue' = queue
                /\ last_read_sn' = last_read_sn
C17_PollRule == [][C17_Step]_vars

\* C18: a packet offered with the sequence number of the packet delivered
\* last, or an older one (signed 16-bit difference <= 0), is discarded: it
\* is neither returned nor inserted into the queue.
C18_Step ==
    (IsOffer /\ output # << >>
     /\ seq_diff(offered'[Len(offered')], LastOutput) <= 0) =>
        /\ q_ret'.val = None
        /\ queue' = queue
        /\ output' = output
C18_OldDiscarded == [][C18_Step]_vars

\* C19: sequence numbers are compared modulo 2^16: once 65535 has been
\* delivered, an offered 0 is returned at once as its successor, an offered
\* 1 or 2 is queued as newer, and the queue is ordered by signed difference.
C19_Step ==
    /\ (IsOffer /\ output # << >> /\ LastOutput = 65535) =>
          LET sn == offered'[Len(offered')] IN
          /\ q_pc' = "ready"
          /\ sn = 0 => (q_ret'.val = Some(0) /\ output' = Append(output, 0))
          /\ sn \in {1, 2} => (q_ret'.val = None /\ queue' = heap_push(queue, sn)
                               /\ Len(queue') = Len(queue) + 1)
    /\ \A i \in 1..(Len(queue) - 1) : seq_diff(queue[i + 1], queue[i]) >= 0
C19_ModularOrder == [][C19_Step]_vars

\* C20: the reorder queue never holds more than max_len packets.
C20_BoundedQueue == Len(queue) <= max_len

\* A step that calls get_write_slice.
IsGetWriteSlice ==
    b_ret'.op = "get_write_slice" /\ written' = written /\ consumed' = consumed

\* C21: after any sequence of get_write_slice, notify_write of at most the
\* slice's length and notify_read of at most the unread bytes,
\* read_pos <= write_pos <= len(data) <= max_capacity.
C21_CursorOrder ==
    /\ read_pos <= write_pos
    /\ write_pos <= Len(data)
    /\ Len(data) <= max_capacity
\* the storage is at its ceiling, full, and part of it has been consumed
C21_Witness ==
    /\ Len(data) = max_capacity /\ write_pos = Len(data)
    /\ read_pos > 0 /\ read_pos < write_pos
    /\ max_capacity >= 3

\* C22 as stated: read_pos = write_pos implies both are 0, and once every
\* byte written has been consumed the buffer equals a freshly created one
\* (storage included).
C22_FreshAfterDrain ==
    /\ read_pos = write_pos => (read_pos = 0 /\ write_pos = 0)
    /\ (written > 0 /\ consumed = written) => BSelf = BufferNew(max_capacity)

\* C22 amended: read_pos = write_pos implies both are 0, and once every byte
\* written has been consumed both cursors are 0 and nothing is unread, as in
\* a freshly created buffer; the storage keeps the length it has grown to.
C22_CursorsResetAfterDrain ==
    /\ read_pos = write_pos => (read_pos = 0 /\ write_pos = 0)
    /\ consumed = written =>
          /\ read_pos = BufferNew(max_capacity).read_pos
          /\ write_pos = BufferNew(max_capacity).write_pos
          /\ get_read_slice(BSelf) = << >>
C22_Witness ==
    /\ written >= 2 /\ consumed = written
    /\ b_ret.op = "notify_read" /\ b_ret.n >= 1
    /\ Len(data) >= 2

\* C23: get_write_slice(n) returns a slice of at least n bytes whenever the
\* free tail, or moving the unread bytes to offset 0, or growing the storage
\* within max_capacity can provide n bytes, and fails with NotEnoughSpace
\* only when none of the three can.
TailProvides(n) == write_pos + n <= Len(data)
CompactionProvides(n) == (write_pos - read_pos) + n <= Len(data)
GrowthProvides(n) == write_pos + n <= max_capacity
C23_Step ==
    \A n \in 0..(MaxCapacity + 1) :
        (IsGetWriteSlice /\ b_ret'.n = n) =>
            IF TailProvides(n) \/ CompactionProvides(n) \/ GrowthProvides(n)
            THEN b_ret'.tag = "Ok" /\ slice_len' >= n
            ELSE b_ret'.tag = "Err"
C23_SliceWheneverPossible == [][C23_Step]_vars

\* C24: the bytes get_read_slice exposes are the bytes written and
\* acknowledged, minus those consumed, in write order; get_write_slice never
\* changes them, and a failing get_write_slice leaves both cursors unchanged.
C24_Step ==
    /\ get_read_slice(BSelf)' = [i \in 1..(written' - consumed') |-> consumed' + i]
    /\ IsGetWriteSlice =>
          /\ get_read_slice(BSelf)' = get_read_slice(BSelf)
          /\ b_ret'.tag = "Err" => (read_pos' = read_pos /\ write_pos' = write_pos)
C24_Fifo == [][C24_Step]_vars
\* unread bytes survived a compaction: they start at offset 0 of a storage
\* that had a consumed prefix, and are not the first bytes written
C24_Witness ==
    /\ b_ret = [op |-> "get_write_slice", n |-> 1, tag |-> "Ok"]
    /\ read_pos = 0 /\ write_pos >= 2 /\ consumed >= 1
    /\ write_pos + 1 = Len(data) /\ Len(data) = max_capacity

\* --------------------------------------------------- C25..C30: receive path
\* The well-formed responses a server sends on these streams, and what the
\* bytes d at the head of buffer_rx are with respect to them.
Responses == {Ok1, Ok1Body, NotFound2}
IsPrefix(a, b) == Len(a) <= Len(b) /\ SubSeq(b, 1, Len(a)) = a
\* d begins with a whole response
HasHead(d) == \E R \in Responses : IsPrefix(R, d)
Head_(d) == CHOOSE R \in Responses : IsPrefix(R, d)
\* d is the beginning of a response, and not all of it
SplitHead(d) == d # << >> /\ \E R \in Responses : IsPrefix(d, R) /\ Len(d) < Len(R)
\* The length h of the header section of a response, through its empty line.
HeaderEnd(t) ==
    CHOOSE i \in 4..Len(t) :
        /\ SubSeq(t, i - 3, i) = CRLF \o CRLF
        /\ \A j \in 4..(i - 1) : SubSeq(t, j - 3, j) # CRLF \o CRLF
\* The lengths of the whole responses d begins with, in order.
RECURSIVE FrameLens(_)
FrameLens(d) ==
    IF HasHead(d)
    THEN << Len(Head_(d)) >> \o FrameLens(SliceFrom(d, Len(Head_(d))))
    ELSE << >>

\* A stream read and the handle_data that follows it.
IsRxRead == pc = "select" /\ stream' # stream
\* The step leaves the channel as it was, but for the bytes d now buffered.
RxNoEffect(d) ==
    /\ buffer_rx' = d
    /\ rx_ret'.consumed = << >>
    /\ cmd_pending' = cmd_pending
    /\ cmd_retry' = cmd_retry
    /\ sink' = sink
    /\ shutdown' = shutdown
    /\ pc' = "top"

\* C25: a read that leaves only the beginning of a response in buffer_rx
\* (cut at any byte) causes no shutdown, no reply and no consumption: the
\* bytes wait in buffer_rx for the read that completes the response.
C25_Step ==
    (IsRxRead /\ SplitHead(rx_ret'.seen)) => RxNoEffect(rx_ret'.seen)
C25_SplitResponseWaits == [][C25_Step]_vars

\* C26: a result sent to a receiver that was dropped changes nothing: the
\* shutdown flag, the pending map, the retry queue, the CSeq counter, the
\* task's survival and what every other command receives are what they are
\* when the receiver is alive, and the dropped receiver gets nothing.
Alive(snk) == [c \in CmdIds |-> IF snk[c] = SinkClosed THEN SinkWaiting ELSE snk[c]]
C26_Step ==
    IsRxRead =>
      \E ref \in {handle_data([Self EXCEPT !.sink = Alive(sink)], user,
                              rx_ret'.seen, << >>)} :
         /\ shutdown' = ref.ch.shutdown
         /\ cmd_pending' = ref.ch.cmd_pending
         /\ cmd_retry' = ref.ch.cmd_retry
         /\ cseq' = ref.ch.cseq
         /\ (pc' = "panicked") <=> (ref.tag = "Panic")
         /\ \A c \in CmdIds :
               IF sink[c] = SinkClosed
               THEN sink'[c] = SinkClosed
               ELSE sink'[c] = IF ref.tag = "Panic"
                               THEN DropChannel(ref.ch.sink)[c]
                               ELSE ref.ch.sink[c]
C26_DroppedReceiverNoOp == [][C26_Step]_vars

\* Command 1's receiver is gone, the response to it has been dispatched and
\* consumed, command 2 is still waiting for its own and the channel runs.
C26_Witness ==
    /\ sink[1] = SinkClosed
    /\ rx_ret.tag = "Break"
    /\ Len(rx_ret.consumed) = 1
    /\ IsPrefix(Ok1Body, rx_ret.seen)
    /\ 1 \notin Range(cmd_pending)
    /\ 2 \in Range(cmd_pending)
    /\ sink[2] = SinkWaiting
    /\ ~shutdown
    /\ pc = "top"

\* C28: the parser's state only moves forward; the status is yielded once,
\* before every header; the body is yielded after all headers and is the
\* last item; once Done, parse_next yields nothing and moves nothing.
Rank(st) ==
    CASE st = "ExpectProtocol" -> 1
      [] st = "ExpectStatus" -> 2
      [] st = "ExpectHeader" -> 3
      [] st = "ExpectBody" -> 4
      [] st = "Done" -> 5
Count(its, k) == Cardinality({i \in DOMAIN its : its[i] = k})
InOrder(its, st) ==
    /\ Count(its, "Status") = (IF Rank(st) >= 3 THEN 1 ELSE 0)
    /\ Count(its, "Body") <= 1
    /\ \A i, j \in DOMAIN its :
          /\ (its[i] = "Status" /\ its[j] = "Header") => i < j
          /\ (its[i] = "Body" /\ i # j) => j < i
    /\ (Count(its, "Body") = 1) => st = "Done"
IsParseNext == buffer_rx' = buffer_rx /\ p_ret' # p_ret
C28_Step ==
    /\ Rank(state') >= Rank(state)
    /\ InOrder(items', state')
    /\ (state = "Done" /\ buffer_rx' = buffer_rx)
          => /\ state' = "Done"
             /\ pos' = pos
             /\ items' = items
             /\ p_ret'.item = None
C28_ForwardOnly == [][C28_Step]_vars

\* The parser is Done with status, headers and body yielded, and a further
\* parse_next has returned nothing.
C28_Witness ==
    /\ state = "Done"
    /\ items = << "Protocol", "Status", "Header", "Header", "Body" >>
    /\ p_ret = [tag |-> "Ok", item |-> None]
    /\ pos = Len(Ok1Body)

\* The states the parser is in after each parse_next of read_rtsp_packet's loop.
RECURSIVE states_seen(_, _)
states_seen(parser, d) ==
    With(parse_next(parser, d), LAMBDA r :
         IF r.tag # "Ok" \/ ~IsSome(r.item)
         THEN << r.self.state >>
         ELSE << r.self.state >> \o states_seen(r.self, d))

\* C29: on bytes that begin with a whole response of h header bytes and c
\* body bytes the parser ends Done with parsed_bytes = h + c, without ever
\* expecting a body when c = 0; handle_data consumes exactly h + c bytes for
\* it and goes on, in the same call, with the response that follows it.
C29_Step ==
    (IsRxRead /\ HasHead(rx_ret'.seen)) =>
      \E d \in {rx_ret'.seen} : \E R \in {Head_(rx_ret'.seen)} :
      \E p \in {Collected(d)} :
         /\ p.tag = "Ok"
         /\ is_done(p.parser)
         /\ parsed_bytes(p.parser) = Len(R)
         /\ p.parser.header_length = HeaderEnd(R)
         /\ p.parser.content_length = Len(R) - HeaderEnd(R)
         /\ (Len(R) = HeaderEnd(R)) => "ExpectBody" \notin Range(states_seen(ParserNew, d))
         /\ IsPrefix(rx_ret'.consumed, FrameLens(d))
         /\ (Len(rx_ret'.consumed) < Len(FrameLens(d)))
               => rx_ret'.tag \in {"Shutdown", "Panic"}
C29_ConsumesWholeResponse == [][C29_Step]_vars

\* Two responses, the first with a body, came in one read: both consumed
\* and dispatched by one handle_data.
C29_Witness ==
    /\ rx_ret.seen = Ok1Body \o NotFound2
    /\ rx_ret.consumed = << Len(Ok1Body), Len(NotFound2) >>
    /\ buffer_rx = << >>
    /\ sink[1] = SinkOk("test")
    /\ sink[2] = SinkUnexpectedStatus(404)

\* C30: while the header section of a response is buffered and its body of
\* Content-Length <= 32 KiB bytes is not, the parser is not done and has no
\* body, and handle_data consumes nothing, removes nothing from cmd_pending,
\* sends nothing and does not shut down; once the rest is there the body
\* handed to the command is the Content-Length bytes after the header.
BodyShort(d) ==
    /\ IsPrefix(d, Ok1Body)
    /\ HeaderEnd(Ok1Body) <= Len(d)
    /\ Len(d) < Len(Ok1Body)
C30_Step ==
    IsRxRead =>
      \E d \in {rx_ret'.seen} :
         /\ BodyShort(d) =>
               /\ Len(Ok1Body) - HeaderEnd(Ok1Body) <= MaxResponse
               /\ ~is_done(Collected(d).parser)
               /\ Collected(d).body = None
               /\ rx_ret'.tag = "Incomplete"
               /\ RxNoEffect(d)
         /\ IsPrefix(Ok1Body, d) =>
               /\ Collected(d).body
                     = Some(SubSeq(d, HeaderEnd(Ok1Body) + 1, Len(Ok1Body)))
               /\ \A c \in CmdIds :
                     (1 \in DOMAIN cmd_pending /\ cmd_pending[1] = c
                      /\ sink[c] = SinkWaiting)
                        => sink'[c] = SinkOk("test")
C30_IncompleteBodyWaits == [][C30_Step]_vars

\* The header and part of the body are buffered and wait; command 1, whose
\* response it is, is still pending and has received nothing.
C30_Witness ==
    /\ rx_ret.tag = "Incomplete"
    /\ BodyShort(buffer_rx)
    /\ Len(buffer_rx) > HeaderEnd(Ok1Body)
    /\ 1 \in DOMAIN cmd_pending
    /\ sink[cmd_pending[1]] = SinkWaiting
    /\ ~shutdown
    /\ pc = "top"

\* C27: when get_write_slice on buffer_tx fails with NotEnoughSpace while
\* a request is to be serialised, the channel shuts down in the regular way:
\* the shutdown flag is set, the task does not end abnormally, and the
\* commands that were pending receive Cancelled.
C27_Step ==
    (b_ret'.tag = "Err" /\ b_ret.tag # "Err") =>
       /\ shutdown'
       /\ pc' # "panicked"
       /\ \A c \in Range(cmd_pending) : sink'[c] = Cancelled
C27_ExhaustionShutsDown == [][C27_Step]_vars

\* ---------------------------------------------- C31..C40: requests, lifecycle
\* The header lines of request r named nm.
HeadersNamed(r, nm) == {i \in DOMAIN r.headers : r.headers[i].name = nm}
\* The requests a step serialises, in order.
NewRequests == SubSeq(Serialised', Len(Serialised) + 1, Len(Serialised'))

\* C31: every request serialised carries exactly one CSeq header, whose value
\* is the key under which its command is pending after the step, a User-Agent
\* header, and an Authorization header if and only if the authorizer is not
\* None; an authorizer, once installed, never becomes None again, and while
\* none is installed no serialised request carries Authorization.
C31_Step ==
    /\ \A i \in DOMAIN NewRequests :
          LET r == NewRequests[i] IN
          /\ Cardinality(HeadersNamed(r, "CSeq")) = 1
          /\ \A h \in HeadersNamed(r, "CSeq") :
                /\ r.headers[h].value \in DOMAIN cmd_pending'
                /\ cmd_pending'[r.headers[h].value] = r.cmd
          /\ HeadersNamed(r, "User-Agent") # {}
          /\ HeadersNamed(r, "Authorization") # {} <=> authorizer.kind # "None"
          /\ \A h \in HeadersNamed(r, "Authorization") :
                r.headers[h].value.kind = authorizer.kind
    /\ authorizer.kind # "None" => authorizer'.kind # "None"
    /\ authorizer'.kind = "None" =>
          \A i \in DOMAIN Serialised' :
             HeadersNamed(Serialised'[i], "Authorization") = {}
C31_RequestHeaders == [][C31_Step]_vars
\* A request without and, after a challenge was accepted, requests with an
\* Authorization header have been serialised, one of them for a new command.
C31_Witness ==
    /\ Len(Serialised) >= 3
    /\ HeadersNamed(Serialised[1], "Authorization") = {}
    /\ \E i \in DOMAIN Serialised :
          /\ HeadersNamed(Serialised[i], "Authorization") # {}
          /\ Transmissions(Serialised[i].cmd) = 1
    /\ \E i \in DOMAIN Serialised :
          /\ HeadersNamed(Serialised[i], "Authorization") # {}
          /\ Transmissions(Serialised[i].cmd) = 2
          /\ \E j \in 1..(i - 1) : Serialised[j].cmd = Serialised[i].cmd

\* C32: the k-th Authorization header one Digest authorizer emits carries
\* nc = k: the first carries nc 1, each further one the next number.
C32_NcCountsHeaders ==
    \A i \in DOMAIN wire :
       \A h \in HeadersNamed(wire[i], "Authorization") :
          wire[i].headers[h].value.kind = "Digest" =>
             wire[i].headers[h].value.nc = i

\* The commands whose 401 responses are among fs, in the order of fs, up to
\* the first of fs that is no response to a pending request.
RECURSIVE Answered401(_, _)
Answered401(fs, pend) ==
    IF fs = << >> \/ Head(fs).kind # "resp" \/ ~IsSome(Head(fs).cseq)
    THEN << >>
    ELSE IF Unwrap(Head(fs).cseq) \notin DOMAIN pend
    THEN << >>
    ELSE (IF Head(fs).status = 401 THEN << pend[Unwrap(Head(fs).cseq)] >> ELSE << >>)
         \o Answered401(Tail(fs),
                        [x \in (DOMAIN pend) \ {Unwrap(Head(fs).cseq)} |-> pend[x]])
\* Steps of the loop with buffer_tx's space modelled.
IsTxRead == pc = "select" /\ rx_ret' # rx_ret
IsTxRecv == pc = "select" /\ intake' # intake /\ Len(intake') < Len(intake)

\* C33: the retry queue grows by the commands answered with 401 in the order
\* in which handle_data processed their responses; the next loop iteration
\* serialises the queued commands from the front, each with the authorizer
\* that is current then (the last one installed); and whenever the channel
\* takes a command from the intake queue the retry queue is empty, so the
\* new command's request follows every retry.
C33_Step ==
    /\ IsTxRead => cmd_retry' = cmd_retry \o Answered401(rx_ret'.seen, cmd_pending)
    /\ IsFlush =>
          /\ Len(NewRequests) <= Len(cmd_retry)
          /\ pc' = "select" => Len(NewRequests) = Len(cmd_retry) /\ cmd_retry' = << >>
          /\ \A i \in DOMAIN NewRequests :
                /\ NewRequests[i].cmd = cmd_retry[i]
                /\ NewRequests[i].auth = authorizer.kind
                /\ NewRequests[i].nc = IF authorizer.kind = "Digest"
                                       THEN authorizer.nc + i - 1
                                       ELSE authorizer.nc
    /\ IsTxRecv =>
          /\ cmd_retry = << >>
          /\ Len(NewRequests) = 1
          /\ NewRequests[1].cmd = Head(intake)
C33_RetryOrder == [][C33_Step]_vars
\* Two commands were answered with 401 in one read, the second one first and
\* with another challenge, and both were serialised again in that order with
\* the authorizer installed last.
C33_Witness ==
    /\ Len(wire) >= 4
    /\ wire[1].cmd = 1 /\ wire[2].cmd = 2
    /\ wire[3].cmd = 2 /\ wire[4].cmd = 1
    /\ wire[3].auth = "Digest" /\ wire[4].auth = "Digest"
    /\ Len(rx_ret.seen) = 2
    /\ rx_ret.seen[1].www = Some(BasicOk)

\* The phase of the channel's life, read off its fields: the task has ended;
\* the shutdown flag is set and the loop has not been left yet; a request has
\* been serialised; none has.
Lifecycle ==
    IF pc \in Stopped THEN "Closed"
    ELSE IF shutdown THEN "Draining"
    ELSE IF cseq > 1 THEN "Active"
    ELSE "Idle"
LifecycleRank(l) ==
    CASE l = "Idle" -> 0 [] l = "Active" -> 1 [] l = "Draining" -> 2 [] l = "Closed" -> 3

\* C34: the lifecycle only moves forward through Idle, Active, Draining,
\* Closed; once the shutdown flag is set it stays set, no command is taken
\* from the intake queue and no request is serialised or written any more;
\* once the task has ended nothing of the channel changes.
C34_Step ==
    /\ LifecycleRank(Lifecycle') >= LifecycleRank(Lifecycle)
    /\ shutdown =>
          /\ shutdown'
          /\ Lifecycle' \in {"Draining", "Closed"}
          /\ Len(intake') >= Len(intake)
          /\ SubSeq(intake', 1, Len(intake)) = intake
          /\ Serialised' = Serialised
          /\ wire' = wire
          /\ cseq' = cseq
          /\ cmd_pending' = cmd_pending
    /\ pc \in Stopped => UNCHANGED chanVars
C34_LifecycleForward == [][C34_Step]_vars
\* The task has ended after a shutdown that left a command in the intake
\* queue and one in the retry queue: neither was taken or serialised.
C34_Witness ==
    /\ pc = "terminated"
    /\ exitCause = "shutdown"
    /\ intake # << >>
    /\ cmd_retry # << >>
    /\ wire # << >>

\* C35: while no packet has been delivered an offered packet is returned
\* whatever its number; once a packet has been delivered, also one numbered
\* 0, an offered packet is returned at once only if its number is the
\* number delivered last plus one.
C35_Step ==
    IsOffer =>
       /\ output = << >> => q_ret'.val = Some(offered'[Len(offered')])
       /\ (output # << >> /\ IsSome(q_ret'.val)) =>
             Unwrap(q_ret'.val) = Add1(LastOutput)
C35_FirstOfferOnly == [][C35_Step]_vars

\* C37: every packet held in the reorder queue has a sequence number strictly
\* newer (signed 16-bit difference positive) than the number delivered last,
\* and the number delivered last never moves backwards.
C37_Step ==
    /\ output' # << >> =>
          \A i \in DOMAIN queue' : seq_diff(queue'[i], output'[Len(output')]) > 0
    /\ (output # << >> /\ output' # output) =>
          seq_diff(output'[Len(output')], LastOutput) >= 0
C37_QueuedAreNewer == [][C37_Step]_vars

\* C38: for every buffer Packet::new accepts, data() returns a slice inside
\* the buffer: the data offset 12 + 4 * csrc_count is at most the buffer's
\* length less the padding length its last byte gives when the padding flag
\* is set, and data() does not index out of range.
C38_DataInRange ==
    /\ (pk_ret.op = "new" /\ pk_ret.tag = "Ok") =>
          /\ data_offset(packet_buf) <= Len(packet_buf)
          /\ padding(packet_buf) =>
                data_offset(packet_buf) <= Len(packet_buf) - packet_buf[Len(packet_buf)]
    /\ pk_ret.op = "data" => pk_ret.tag = "Ok"

\* A turn of read_packet that reads a payload classified as RTCP.
IsRtcpRead ==
    /\ Len(stream') < Len(stream)
    /\ get_packet_type(Head(stream)) = "RTCP"

\* C36: a framed payload classified as RTCP (second byte in 200..207) is
\* dropped: it is not offered to the reorder queue, does not change the
\* queue or the number delivered last, and is not delivered.
C36_Step ==
    IsRtcpRead =>
       /\ offered' = offered
       /\ queue' = queue
       /\ last_read_sn' = last_read_sn
       /\ output' = output
       /\ q_pc' = "ready"
C36_RtcpDropped == [][C36_Step]_vars

\* Command c has received a result on its reply sink.
HasResult(c) == sink[c].res \in {"Ok", "Err"}

\* C39: a reply sink receives at most one result: it gets one only while it
\* is waiting and keeps it from then on; a command that has received its
\* result is in none of intake queue, pending map and retry queue, and no
\* further request is serialised for it.
C39_Step ==
    \A c \in CmdIds :
       /\ (sink'[c] # sink[c] /\ sink'[c].res \in {"Ok", "Err"}) => sink[c] = SinkWaiting
       /\ HasResult(c) =>
             /\ sink'[c] = sink[c]
             /\ c \notin Range(intake) \cup Range(intake')
             /\ c \notin Range(cmd_pending) \cup Range(cmd_pending')
             /\ c \notin Range(cmd_retry) \cup Range(cmd_retry')
             /\ \A i \in (DOMAIN Serialised') \ (DOMAIN Serialised) :
                   Serialised'[i].cmd # c
C39_OneResult == [][C39_Step]_vars
\* One command got its answer after a retry, the other was cancelled by the
\* shutdown, and the task has ended.
C39_Witness ==
    /\ pc = "terminated"
    /\ \E c \in CmdIds : sink[c].res = "Ok" /\ Transmissions(c) = 2
    /\ \E c \in CmdIds : sink[c] = Cancelled

\* C40: whenever the channel waits in its select, buffer_tx is empty: every
\* request serialised, from the intake queue or from the retry queue, has
\* been written to the stream, and the buffer's cursors are back at 0.
C40_TxEmptyAtSelect ==
    pc = "select" =>
       /\ buffer_tx = << >>
       /\ Serialised = wire
       /\ get_read_slice(BSelf) = << >>
       /\ read_pos = 0 /\ write_pos = 0
\* The channel waits after it has written a new command's request and the
\* requests of a retry pass through buffer_tx.
C40_Witness ==
    /\ pc = "select"
    /\ Len(wire) >= 3
    /\ \E i \in DOMAIN wire : Transmissions(wire[i].cmd) >= 2
    /\ Len(data) >= TxSlice
    /\ cmd_pending # << >>

====
